---- MODULE Spec2Model ----
(***************************************************************************)
(* A model of the game-state engine of ai_wargame.py: units, coordinates,  *)
(* the board, move validation, action application, turn advance and the    *)
(* winner check, driven by the main loop in manual (human vs human) mode.  *)
(***************************************************************************)
EXTENDS Integers, Sequences, FiniteSets, TLC

(* Options.dim: the side of the square board *)
Dim == 5

(* Options.max_turns used for a game played from the initial deployment *)
MaxTurns == 3

(* number of turns played freely after a replayed opening *)
Horizon == 2

----------------------------------------------------------------------------
(* Enumerations *)

Attacker == "Attacker"
Defender == "Defender"
Player == {Attacker, Defender}

(* Player.next *)
next(p) == IF p = Attacker THEN Defender ELSE Attacker

UnitType == {"AI", "Tech", "Virus", "Program", "Firewall"}

Direction == {"Up", "Right", "Down", "Left"}

ActionType == {"SelfDestruct", "Move", "Attack", "Repair"}

(* Python's None, for an empty cell, a missing action type, a missing winner *)
NoUnit == [player |-> "None", type |-> "None", health |-> 0]
NoAction == "None"
NoWinner == "None"

----------------------------------------------------------------------------
(* Unit *)

Unit(p, t, h) == [player |-> p, type |-> t, health |-> h]

damage_table ==
  [s \in UnitType |->
    CASE s = "AI"       -> [t \in UnitType |-> IF t = "Firewall" THEN 1 ELSE 3]
      [] s = "Tech"     -> [t \in UnitType |-> IF t = "Virus" THEN 6 ELSE 1]
      [] s = "Virus"    -> [t \in UnitType |->
                              CASE t = "AI" -> 9
                                [] t = "Tech" -> 6
                                [] t = "Virus" -> 1
                                [] t = "Program" -> 6
                                [] t = "Firewall" -> 1]
      [] s = "Program"  -> [t \in UnitType |-> IF t = "Firewall" THEN 1 ELSE 3]
      [] s = "Firewall" -> [t \in UnitType |-> 1]]

repair_table ==
  [s \in UnitType |->
    CASE s = "AI"       -> [t \in UnitType |-> IF t \in {"Tech", "Virus"} THEN 1 ELSE 0]
      [] s = "Tech"     -> [t \in UnitType |-> IF t \in {"AI", "Program", "Firewall"} THEN 3 ELSE 0]
      [] s = "Virus"    -> [t \in UnitType |-> 0]
      [] s = "Program"  -> [t \in UnitType |-> 0]
      [] s = "Firewall" -> [t \in UnitType |-> 0]]

is_alive(unit) == unit.health > 0

(* mutant of Unit.mod_health: the clamp at 0 is missing *)
Unit_mod_health_no_floor(unit, health_delta) ==
  LET h == unit.health + health_delta
  IN  [unit EXCEPT !.health = IF h > 9 THEN 9 ELSE h]

(* Unit.mod_health: add the delta, then clamp to 0..9 *)
Unit_mod_health(unit, health_delta) ==
  LET h == unit.health + health_delta
  IN  [unit EXCEPT !.health = IF h < 0 THEN 0 ELSE IF h > 9 THEN 9 ELSE h]

has_full_health(unit) == unit.health = 9

damage_amount(self, target) ==
  LET amount == damage_table[self.type][target.type]
  IN  IF target.health - amount < 0 THEN target.health ELSE amount

(* mutant of Unit.repair_amount: the two indices of the table lookup are
   swapped *)
repair_amount_swapped(self, target) ==
  LET amount == repair_table[target.type][self.type]
  IN  IF target.health + amount > 9 THEN 9 - target.health ELSE amount

(* Unit.repair_amount *)
repair_amount(self, target) ==
  LET amount == repair_table[self.type][target.type]
  IN  IF target.health + amount > 9 THEN 9 - target.health ELSE amount

(* mutant of Unit.is_valid_movement: the Defender's Command unit, Programs
   and Firewalls may move in every direction *)
is_valid_movement_defender_any(self, player, direction) ==
  IF player = Attacker /\ self.type \in {"AI", "Program", "Firewall"}
    THEN direction \in {"Up", "Left"}
  ELSE IF player = Attacker /\ self.type = "Virus"
    THEN TRUE
  ELSE IF player = Defender /\ self.type \in {"AI", "Program", "Firewall"}
    THEN TRUE
  ELSE IF player = Defender /\ self.type = "Tech"
    THEN TRUE
  ELSE FALSE

(* mutant of Unit.is_valid_movement: the Attacker's Command unit, Programs
   and Firewalls move up or right *)
is_valid_movement_attacker_right(self, player, direction) ==
  IF player = Attacker /\ self.type \in {"AI", "Program", "Firewall"}
    THEN direction \in {"Up", "Right"}
  ELSE IF player = Attacker /\ self.type = "Virus"
    THEN TRUE
  ELSE IF player = Defender /\ self.type \in {"AI", "Program", "Firewall"}
    THEN direction \in {"Down", "Right"}
  ELSE IF player = Defender /\ self.type = "Tech"
    THEN TRUE
  ELSE FALSE

(* Unit.is_valid_movement; the fall-through (Attacker Tech, Defender Virus)
   returns None, which the caller treats as false *)
is_valid_movement(self, player, direction) ==
  IF player = Attacker /\ self.type \in {"AI", "Program", "Firewall"}
    THEN direction \in {"Up", "Left"}
  ELSE IF player = Attacker /\ self.type = "Virus"
    THEN TRUE
  ELSE IF player = Defender /\ self.type \in {"AI", "Program", "Firewall"}
    THEN direction \in {"Down", "Right"}
  ELSE IF player = Defender /\ self.type = "Tech"
    THEN TRUE
  ELSE FALSE

----------------------------------------------------------------------------
(* Coord and CoordPair *)

Coord(row, col) == <<row, col>>
Row(c) == c[1]
Col(c) == c[2]

CoordPair(src, dst) == [src |-> src, dst |-> dst]

(* CoordPair.from_quad *)
from_quad(row0, col0, row1, col1) == CoordPair(Coord(row0, col0), Coord(row1, col1))

(* mutant of Coord.iter_range: both ranges stop one short (row+dist and
   col+dist are left out) *)
iter_range_short(c, dist) ==
  LET w == 2 * dist
  IN  [i \in 1..(w * w) |->
         Coord(Row(c) - dist + ((i - 1) \div w), Col(c) - dist + ((i - 1) % w))]

(* Coord.iter_range: the (2*dist+1)-square centred on c, row by row *)
iter_range(c, dist) ==
  LET w == 2 * dist + 1
  IN  [i \in 1..(w * w) |->
         Coord(Row(c) - dist + ((i - 1) \div w), Col(c) - dist + ((i - 1) % w))]

(* Coord.iter_adjacent: up, left, down, right *)
iter_adjacent(c) ==
  << Coord(Row(c) - 1, Col(c)), Coord(Row(c), Col(c) - 1),
     Coord(Row(c) + 1, Col(c)), Coord(Row(c), Col(c) + 1) >>

equals(c, target) == Row(c) = Row(target) /\ Col(c) = Col(target)

(* mutant of CoordPair.is_adjacent: the loop's test always succeeds *)
is_adjacent_always(coords) == TRUE

(* CoordPair.is_adjacent *)
is_adjacent(coords) ==
  \E i \in 1..4 :
    LET adj_coord == iter_adjacent(coords.src)[i]
    IN  Col(adj_coord) = Col(coords.dst) /\ Row(adj_coord) = Row(coords.dst)

are_coords_equal(coords) == equals(coords.src, coords.dst)

(* CoordPair.get_direction; None when src and dst are not on one line *)
get_direction(coords) ==
  LET srcRow == Row(coords.src)
      srcCol == Col(coords.src)
      dstRow == Row(coords.dst)
      dstCol == Col(coords.dst)
  IN  IF srcRow < dstRow /\ srcCol = dstCol THEN "Down"
      ELSE IF srcRow > dstRow /\ srcCol = dstCol THEN "Up"
      ELSE IF srcRow = dstRow /\ srcCol < dstCol THEN "Right"
      ELSE IF srcRow = dstRow /\ srcCol > dstCol THEN "Left"
      ELSE "None"

(* CoordPair.from_dim(dim).iter_rectangle(), as a set: every cell of the board *)
Cells == (0..(Dim - 1)) \X (0..(Dim - 1))

----------------------------------------------------------------------------
(* Game: the state is a record
     board            : Cells -> Unit or NoUnit
     next_player, turns_played, attacker_has_ai, defender_has_ai
     options          : [max_turns]
     dead_units       : the Unit objects that remove_dead has unlinked from the
                        board during the current action, with their cell; the
                        action's locals (src_unit, dst_unit) still refer to them
     ref              : which Game object this is and which board (the list
                        of rows and the Units in it) it holds; the Game that
                        main constructs and its board are 0 *)

is_valid_coord(coord) ==
  ~(Row(coord) < 0 \/ Row(coord) >= Dim \/ Col(coord) < 0 \/ Col(coord) >= Dim)

(* Game.get *)
get(g, coord) == IF is_valid_coord(coord) THEN g.board[coord] ELSE NoUnit

(* Game.set *)
set(g, coord, unit) ==
  IF is_valid_coord(coord) THEN [g EXCEPT !.board[coord] = unit] ELSE g

(* mutant of Game.remove_dead: the dead unit is recorded and the flag is
   updated but the cell is not cleared *)
remove_dead_keeps_cell(g, coord) ==
  LET unit == get(g, coord)
  IN  IF unit # NoUnit /\ ~is_alive(unit)
        THEN LET g1 == [g EXCEPT !.dead_units = @ \cup {[coord |-> coord, unit |-> unit]}]
             IN  IF unit.type = "AI"
                   THEN IF unit.player = Attacker
                          THEN [g1 EXCEPT !.attacker_has_ai = FALSE]
                          ELSE [g1 EXCEPT !.defender_has_ai = FALSE]
                   ELSE g1
        ELSE g

(* mutant of Game.remove_dead: the has-AI flag of the other player is cleared *)
remove_dead_wrong_flag(g, coord) ==
  LET unit == get(g, coord)
  IN  IF unit # NoUnit /\ ~is_alive(unit)
        THEN LET g1 == [set(g, coord, NoUnit) EXCEPT
                          !.dead_units = @ \cup {[coord |-> coord, unit |-> unit]}]
             IN  IF unit.type = "AI"
                   THEN IF unit.player = Attacker
                          THEN [g1 EXCEPT !.defender_has_ai = FALSE]
                          ELSE [g1 EXCEPT !.attacker_has_ai = FALSE]
                   ELSE g1
        ELSE g

(* mutant of Game.remove_dead: the cell is cleared and no has-AI flag is
   changed *)
remove_dead_keeps_flag(g, coord) ==
  LET unit == get(g, coord)
  IN  IF unit # NoUnit /\ ~is_alive(unit)
        THEN [set(g, coord, NoUnit) EXCEPT
                !.dead_units = @ \cup {[coord |-> coord, unit |-> unit]}]
        ELSE g

(* Game.remove_dead *)
remove_dead(g, coord) ==
  LET unit == get(g, coord)
  IN  IF unit # NoUnit /\ ~is_alive(unit)
        THEN LET g1 == [set(g, coord, NoUnit) EXCEPT
                          !.dead_units = @ \cup {[coord |-> coord, unit |-> unit]}]
             IN  IF unit.type = "AI"
                   THEN IF unit.player = Attacker
                          THEN [g1 EXCEPT !.attacker_has_ai = FALSE]
                          ELSE [g1 EXCEPT !.defender_has_ai = FALSE]
                   ELSE g1
        ELSE g

(* mutant of Game.mod_health: the dead are not swept after the change *)
mod_health_no_sweep(g, coord, health_delta) ==
  LET target == get(g, coord)
  IN  IF target # NoUnit
        THEN set(g, coord, Unit_mod_health(target, health_delta))
        ELSE g

(* Game.mod_health *)
mod_health(g, coord, health_delta) ==
  LET target == get(g, coord)
  IN  IF target # NoUnit
        THEN remove_dead(set(g, coord, Unit_mod_health(target, health_delta)), coord)
        ELSE g

(* the loop of perform_self_distruct over src.iter_range(1), from index i on *)
RECURSIVE damage_surroundings(_, _, _)
damage_surroundings(g, src, i) ==
  LET range == iter_range(src, 1)
  IN  IF i > Len(range) THEN g
      ELSE IF equals(src, range[i]) THEN damage_surroundings(g, src, i + 1)
      ELSE damage_surroundings(mod_health(g, range[i], -2), src, i + 1)

(* Game.perform_self_distruct *)
perform_self_distruct(g, src) ==
  LET g1 == damage_surroundings(g, src, 1)
      src_unit == get(g1, src)
  IN  mod_health(g1, src, -src_unit.health)

(* mutant of Game.perform_fight: the target is damaged first and strikes
   back only if it is still on the board *)
perform_fight_first_strike(g, coords) ==
  LET src_unit == get(g, coords.src)
      dst_unit == get(g, coords.dst)
      g1 == mod_health(g, coords.dst, -damage_amount(src_unit, dst_unit))
      dst_after == get(g1, coords.dst)
  IN  IF dst_after = NoUnit THEN g1
      ELSE mod_health(g1, coords.src, -damage_amount(dst_after, src_unit))

(* Game.perform_fight *)
perform_fight(g, coords) ==
  LET src_unit == get(g, coords.src)
      dst_unit == get(g, coords.dst)
      damage_to_dst == damage_amount(src_unit, dst_unit)
      damage_to_src == damage_amount(dst_unit, src_unit)
  IN  mod_health(mod_health(g, coords.src, -damage_to_src), coords.dst, -damage_to_dst)

(* mutant of Game.perform_repair: the health of the repairing unit is
   changed, not that of the target *)
perform_repair_self(g, coords) ==
  LET src_unit == get(g, coords.src)
      dst_unit == get(g, coords.dst)
      repair_to_dst == repair_amount(src_unit, dst_unit)
  IN  mod_health(g, coords.src, repair_to_dst)

(* Game.perform_repair *)
perform_repair(g, coords) ==
  LET src_unit == get(g, coords.src)
      dst_unit == get(g, coords.dst)
      repair_to_dst == repair_amount(src_unit, dst_unit)
  IN  mod_health(g, coords.dst, repair_to_dst)

is_repair_zero(src_unit, dst_unit) == repair_amount(src_unit, dst_unit) <= 0

(* mutant of Game.is_engaged_in_combat: the loop returns after the first
   adjacent cell (the one above) *)
is_engaged_in_combat_first(g, src) ==
  LET enemy == IF g.next_player = Attacker THEN Defender ELSE Attacker
      dst_unit == get(g, iter_adjacent(src)[1])
  IN  dst_unit # NoUnit /\ dst_unit.player = enemy

(* Game.is_engaged_in_combat *)
is_engaged_in_combat(g, src) ==
  LET enemy == IF g.next_player = Attacker THEN Defender ELSE Attacker
  IN  \E i \in 1..4 :
        LET dst_unit == get(g, iter_adjacent(src)[i])
        IN  dst_unit # NoUnit /\ dst_unit.player = enemy

(* Game.is_movement_direction_valid *)
is_movement_direction_valid(g, unit, coords) ==
  is_valid_movement(unit, g.next_player, get_direction(coords))

Valid(action_type) == [ok |-> TRUE, action_type |-> action_type]
Invalid == [ok |-> FALSE, action_type |-> NoAction]

(* mutant of Game.is_valid_move: the owner of the source unit is not
   compared with the player to move *)
is_valid_move_any_owner(g, coords) ==
  LET src_unit == get(g, coords.src)
      dst_unit == get(g, coords.dst)
  IN  IF ~is_valid_coord(coords.src) \/ ~is_valid_coord(coords.dst) THEN Invalid
      ELSE IF src_unit = NoUnit THEN Invalid
      ELSE IF are_coords_equal(coords) THEN Valid("SelfDestruct")
      ELSE IF ~is_adjacent(coords) THEN Invalid
      ELSE IF dst_unit = NoUnit
        THEN IF is_engaged_in_combat(g, coords.src)
                  /\ src_unit.type # "Tech" /\ src_unit.type # "Virus"
               THEN Invalid
             ELSE IF ~is_movement_direction_valid(g, src_unit, coords) THEN Invalid
             ELSE Valid("Move")
      ELSE IF dst_unit.player = g.next_player
        THEN IF (src_unit.type = "Tech" \/ src_unit.type = "AI")
                  /\ ~is_repair_zero(src_unit, dst_unit) /\ ~has_full_health(dst_unit)
               THEN Valid("Repair")
               ELSE Invalid
      ELSE Valid("Attack")

(* mutant of Game.is_valid_move: an attack is subject to the direction rule
   of a move *)
is_valid_move_attack_direction(g, coords) ==
  LET src_unit == get(g, coords.src)
      dst_unit == get(g, coords.dst)
  IN  IF ~is_valid_coord(coords.src) \/ ~is_valid_coord(coords.dst) THEN Invalid
      ELSE IF src_unit = NoUnit \/ src_unit.player # g.next_player THEN Invalid
      ELSE IF are_coords_equal(coords) THEN Valid("SelfDestruct")
      ELSE IF ~is_adjacent(coords) THEN Invalid
      ELSE IF dst_unit = NoUnit
        THEN IF is_engaged_in_combat(g, coords.src)
                  /\ src_unit.type # "Tech" /\ src_unit.type # "Virus"
               THEN Invalid
             ELSE IF ~is_movement_direction_valid(g, src_unit, coords) THEN Invalid
             ELSE Valid("Move")
      ELSE IF dst_unit.player = g.next_player
        THEN IF (src_unit.type = "Tech" \/ src_unit.type = "AI")
                  /\ ~is_repair_zero(src_unit, dst_unit) /\ ~has_full_health(dst_unit)
               THEN Valid("Repair")
               ELSE Invalid
      ELSE IF ~is_movement_direction_valid(g, src_unit, coords) THEN Invalid
      ELSE Valid("Attack")

(* Game.is_valid_move: (is_valid, action_type) *)
is_valid_move(g, coords) ==
  LET src_unit == get(g, coords.src)
      dst_unit == get(g, coords.dst)
  IN  IF ~is_valid_coord(coords.src) \/ ~is_valid_coord(coords.dst) THEN Invalid
      ELSE IF src_unit = NoUnit \/ src_unit.player # g.next_player THEN Invalid
      ELSE IF are_coords_equal(coords) THEN Valid("SelfDestruct")
      ELSE IF ~is_adjacent(coords) THEN Invalid
      ELSE IF dst_unit = NoUnit
        THEN IF is_engaged_in_combat(g, coords.src)
                  /\ src_unit.type # "Tech" /\ src_unit.type # "Virus"
               THEN Invalid
             ELSE IF ~is_movement_direction_valid(g, src_unit, coords) THEN Invalid
             ELSE Valid("Move")
      ELSE IF dst_unit.player = g.next_player
        THEN IF (src_unit.type = "Tech" \/ src_unit.type = "AI")
                  /\ ~is_repair_zero(src_unit, dst_unit) /\ ~has_full_health(dst_unit)
               THEN Valid("Repair")
               ELSE Invalid
      ELSE Valid("Attack")

(* mutant of Game.next_turn: the counter is increased and the player to move
   is left as it was *)
next_turn_same_player(g) ==
  [g EXCEPT !.turns_played = @ + 1]

(* Game.next_turn *)
next_turn(g) ==
  [g EXCEPT !.next_player = next(g.next_player), !.turns_played = @ + 1]

(* mutant of Game.do_move_action: a Move does not clear the source cell *)
do_move_action_no_clear(g, coords, action_type) ==
  IF action_type = "SelfDestruct" THEN perform_self_distruct(g, coords.src)
  ELSE IF action_type = "Move" THEN set(g, coords.dst, get(g, coords.src))
  ELSE IF action_type = "Attack" THEN perform_fight(g, coords)
  ELSE IF action_type = "Repair" THEN perform_repair(g, coords)
  ELSE g

(* mutant of Game.do_move_action: the action is followed by next_turn *)
do_move_action_next_turn(g, coords, action_type) ==
  next_turn(
    IF action_type = "SelfDestruct" THEN perform_self_distruct(g, coords.src)
    ELSE IF action_type = "Move"
      THEN set(set(g, coords.dst, get(g, coords.src)), coords.src, NoUnit)
    ELSE IF action_type = "Attack" THEN perform_fight(g, coords)
    ELSE IF action_type = "Repair" THEN perform_repair(g, coords)
    ELSE g)

(* Game.do_move_action *)
do_move_action(g, coords, action_type) ==
  IF action_type = "SelfDestruct" THEN perform_self_distruct(g, coords.src)
  ELSE IF action_type = "Move"
    THEN set(set(g, coords.dst, get(g, coords.src)), coords.src, NoUnit)
  ELSE IF action_type = "Attack" THEN perform_fight(g, coords)
  ELSE IF action_type = "Repair" THEN perform_repair(g, coords)
  ELSE g

(* mutant of Game.has_winner: the turn limit is tested after the flags *)
has_winner_limit_last(g) ==
  IF g.attacker_has_ai /\ ~g.defender_has_ai THEN Attacker
  ELSE IF ~g.attacker_has_ai THEN Defender
  ELSE IF g.turns_played >= g.options.max_turns THEN Defender
  ELSE NoWinner

(* mutant of Game.has_winner: with both Command units destroyed the
   Attacker wins *)
has_winner_tie_attacker(g) ==
  IF g.turns_played >= g.options.max_turns THEN Defender
  ELSE IF g.attacker_has_ai
    THEN IF g.defender_has_ai THEN NoWinner ELSE Attacker
  ELSE IF g.defender_has_ai THEN Defender
  ELSE Attacker

(* mutant of Game.has_winner: the turn limit is reached once the counter has
   passed it *)
has_winner_limit_strict(g) ==
  IF g.turns_played > g.options.max_turns THEN Defender
  ELSE IF g.attacker_has_ai
    THEN IF g.defender_has_ai THEN NoWinner ELSE Attacker
  ELSE IF g.defender_has_ai THEN Defender
  ELSE Defender

(* Game.has_winner, with a maximum number of turns configured
   (options.max_turns is not None) *)
has_winner(g) ==
  IF g.turns_played >= g.options.max_turns THEN Defender
  ELSE IF g.attacker_has_ai
    THEN IF g.defender_has_ai THEN NoWinner ELSE Attacker
  ELSE IF g.defender_has_ai THEN Defender
  ELSE Defender

(* Game.is_finished *)
is_finished(g) == has_winner(g) # NoWinner

(* the board built by Game.__post_init__: twelve set() calls in order on an
   empty dim x dim board, a later call overwriting an earlier one on the
   same cell *)
Deployment ==
  LET md == Dim - 1
  IN  << <<Coord(0, 0), Unit(Defender, "AI", 9)>>,
         <<Coord(1, 0), Unit(Defender, "Tech", 9)>>,
         <<Coord(0, 1), Unit(Defender, "Tech", 9)>>,
         <<Coord(2, 0), Unit(Defender, "Firewall", 9)>>,
         <<Coord(0, 2), Unit(Defender, "Firewall", 9)>>,
         <<Coord(1, 1), Unit(Defender, "Program", 9)>>,
         <<Coord(md, md), Unit(Attacker, "AI", 9)>>,
         <<Coord(md - 1, md), Unit(Attacker, "Virus", 9)>>,
         <<Coord(md, md - 1), Unit(Attacker, "Virus", 9)>>,
         <<Coord(md - 2, md), Unit(Attacker, "Program", 9)>>,
         <<Coord(md, md - 2), Unit(Attacker, "Program", 9)>>,
         <<Coord(md - 1, md - 1), Unit(Attacker, "Firewall", 9)>> >>

RECURSIVE deploy(_, _)
deploy(g, i) ==
  IF i > Len(Deployment) THEN g
  ELSE deploy(set(g, Deployment[i][1], Deployment[i][2]), i + 1)

(* Options(): the defaults of the fields the game reads, with the game type
   main sets for "manual".  max_time is not a field of the model: the clock
   is read relative to it (see reading below). *)
Options ==
  [max_depth |-> 4,
   alpha_beta |-> TRUE,
   max_turns |-> 100,
   heuristic |-> "None",
   game_type |-> "AttackerVsDefender"]

(* Stats(): no evaluation counted at any depth *)
Stats == [evaluations_per_depth |-> [d \in {} |-> 0]]

(* Game(options): the field defaults, then __post_init__ *)
NewGame(max_turns) ==
  deploy([board |-> [c \in Cells |-> NoUnit],
          next_player |-> Attacker,
          turns_played |-> 0,
          options |-> [Options EXCEPT !.max_turns = max_turns],
          stats |-> Stats,
          attacker_has_ai |-> TRUE,
          defender_has_ai |-> TRUE,
          dead_units |-> {},
          ref |-> [self |-> 0, board |-> 0]], 1)

----------------------------------------------------------------------------
(* Move generation *)

(* CoordPair.from_dim(dim).iter_rectangle(): the cells of the board, row by
   row *)
iter_rectangle ==
  [i \in 1..(Dim * Dim) |-> Coord((i - 1) \div Dim, (i - 1) % Dim)]

(* mutant of Game.player_units: the units of both players are yielded *)
player_units_any(g, player) ==
  SelectSeq(iter_rectangle, LAMBDA coord : get(g, coord) # NoUnit)

(* mutant of Game.player_units: the type of the unit, not its owner, is
   compared with the player *)
player_units_by_type(g, player) ==
  SelectSeq(iter_rectangle,
            LAMBDA coord : get(g, coord) # NoUnit /\ get(g, coord).type = player)

(* Game.player_units: the cells of the units of one player, in board order *)
player_units(g, player) ==
  SelectSeq(iter_rectangle,
            LAMBDA coord : get(g, coord) # NoUnit /\ get(g, coord).player = player)

(* mutant of the body of the outer loop of Game.move_candidates: the last
   of the four adjacent cells is not tried *)
unit_candidates_three(g, src) ==
  LET adjacent == iter_adjacent(src)
      moves == [i \in 1..3 |-> CoordPair(src, adjacent[i])]
      valid == SelectSeq(moves, LAMBDA move : is_valid_move(g, move).ok)
  IN  [i \in 1..Len(valid) |->
         [move |-> valid[i], action_type |-> is_valid_move(g, valid[i]).action_type]]
      \o << [move |-> CoordPair(src, src), action_type |-> "SelfDestruct"] >>

(* the body of the outer loop of Game.move_candidates for one source: the
   valid pairs towards the four adjacent cells, then the self-destruct *)
unit_candidates(g, src) ==
  LET adjacent == iter_adjacent(src)
      moves == [i \in 1..4 |-> CoordPair(src, adjacent[i])]
      valid == SelectSeq(moves, LAMBDA move : is_valid_move(g, move).ok)
  IN  [i \in 1..Len(valid) |->
         [move |-> valid[i], action_type |-> is_valid_move(g, valid[i]).action_type]]
      \o << [move |-> CoordPair(src, src), action_type |-> "SelfDestruct"] >>

(* the outer loop of Game.move_candidates over units[i..] *)
RECURSIVE candidates_from(_, _, _)
candidates_from(g, units, i) ==
  IF i > Len(units) THEN << >>
  ELSE unit_candidates(g, units[i]) \o candidates_from(g, units, i + 1)

(* Game.move_candidates: the sequence of (move, action_type) it yields *)
move_candidates(g) == candidates_from(g, player_units(g, g.next_player), 1)

----------------------------------------------------------------------------
(* Heuristic scores.  A score is a tagged value, since the code lets four
   kinds of object flow through the search: an int, float('inf') or
   float('-inf'), None (calculate_heuristic with no heuristic selected) and
   the bound method node.calculate_heuristic itself. *)

Num(n) == [kind |-> "int", val |-> n]
Inf(sign) == [kind |-> "inf", val |-> sign]
Method == [kind |-> "method", val |-> 0]
NoneScore == [kind |-> "None", val |-> 0]

MAX_HEURISTIC_SCORE == 2000000000
MIN_HEURISTIC_SCORE == -2000000000

(* the operands for which Python's < and > are defined *)
is_number(v) == v.kind \in {"int", "inf"}

(* a < b on numbers *)
less(a, b) ==
  IF a.kind = "inf" THEN a.val < 0 /\ ~(b.kind = "inf" /\ b.val < 0)
  ELSE IF b.kind = "inf" THEN b.val > 0
  ELSE a.val < b.val

(* Game.get_all_units *)
get_all_units(g) ==
  SelectSeq(iter_rectangle, LAMBDA coord : get(g, coord) # NoUnit)

(* what one unit adds to the score under e0 *)
e0_term(unit) ==
  (IF unit.player = Attacker
     THEN IF unit.type = "AI" THEN 9999 ELSE 3
     ELSE 0)
  - (IF unit.player = Defender
       THEN IF unit.type = "AI" THEN 9999 ELSE 3
       ELSE 0)

(* mutant of the e2 branch: the Defender's branch tests for a Virus, as the
   Attacker's does *)
e2_term_virus_twice(unit) ==
  (IF unit.player = Attacker
     THEN IF unit.type = "AI" THEN 1000 * unit.health
          ELSE IF unit.type = "Virus" THEN 30 * unit.health
          ELSE 10 * unit.health
     ELSE 0)
  - (IF unit.player = Defender
       THEN IF unit.type = "AI" THEN 1000 * unit.health
            ELSE IF unit.type = "Virus" THEN 30 * unit.health
            ELSE 10 * unit.health
       ELSE 0)

(* what one unit adds to the score under e2 *)
e2_term(unit) ==
  (IF unit.player = Attacker
     THEN IF unit.type = "AI" THEN 1000 * unit.health
          ELSE IF unit.type = "Virus" THEN 30 * unit.health
          ELSE 10 * unit.health
     ELSE 0)
  - (IF unit.player = Defender
       THEN IF unit.type = "AI" THEN 1000 * unit.health
            ELSE IF unit.type = "Tech" THEN 30 * unit.health
            ELSE 10 * unit.health
       ELSE 0)

(* the loop "for (_, unit) in self.get_all_units()" from unit i on *)
RECURSIVE sum_units(_, _, _, _, _)
sum_units(g, units, i, score, heuristic) ==
  IF i > Len(units) THEN score
  ELSE sum_units(g, units, i + 1,
                 score + (IF heuristic = "e0" THEN e0_term(get(g, units[i]))
                          ELSE e2_term(get(g, units[i]))),
                 heuristic)

(* Game.calculate_heuristic; the function falls off its end, returning
   None, when options.heuristic is none of e0, e1, e2 *)
calculate_heuristic(g) ==
  IF g.options.heuristic = "e0" THEN Num(sum_units(g, get_all_units(g), 1, 0, "e0"))
  ELSE IF g.options.heuristic = "e1" THEN Num(0)
  ELSE IF g.options.heuristic = "e2" THEN Num(sum_units(g, get_all_units(g), 1, 0, "e2"))
  ELSE NoneScore

----------------------------------------------------------------------------
(* Game.get_best_move_minimax.

   Time.  The code reads time() in the test of the while loop and, at every
   node that is not at the depth limit, in the node's test, and compares
   time() - start_time + buffer_time with options.max_time.  The clock is an
   input: it only moves forward, so a run of the search sees the comparison
   come out "less" for its first clk.lt readings, "equal" for the next
   clk.eq and "greater" from then on.

   Exceptions.  A result carries raised: "None", or the name of the
   exception that left the function. *)

reading(clk, n) ==
  IF n <= clk.lt THEN -1 ELSE IF n <= clk.lt + clk.eq THEN 0 ELSE 1

(* Python's None, and a local that is not bound, where a CoordPair or a
   score is expected *)
NoneMove == CoordPair(Coord(-1, -1), Coord(-1, -1))
UnboundMove == CoordPair(Coord(-2, -2), Coord(-2, -2))
UnboundScore == [kind |-> "unbound", val |-> 0]

(* mutant of Game.clone: copy.copy alone, the board is not copied *)
clone_shallow(g) ==
  [g EXCEPT !.dead_units = {},
            !.ref = [self |-> g.ref.self + 1, board |-> g.ref.board]]

(* Game.clone: copy.copy gives a new Game object, copy.deepcopy a new board
   with new Units; the copy starts no action with units already unlinked.
   The new objects are numbered after the object copied, which tells them
   from it and from every object it was copied from *)
clone(g) ==
  [g EXCEPT !.dead_units = {},
            !.ref = [self |-> g.ref.self + 1, board |-> g.ref.self + 1]]

(* Game.get_child_states: the sequence of (move, child_state) it yields *)
get_child_states(g) ==
  LET cands == move_candidates(g)
  IN  [i \in 1..Len(cands) |->
         [move |-> cands[i].move,
          child_state |-> do_move_action(clone(g), cands[i].move, cands[i].action_type)]]

(* evaluations_per_depth[k] = evaluations_per_depth.setdefault(k, 0) + 1 *)
count_evaluation(evaluations_per_depth, k) ==
  [d \in (DOMAIN evaluations_per_depth) \cup {k} |->
     IF d \in DOMAIN evaluations_per_depth
       THEN evaluations_per_depth[d] + (IF d = k THEN 1 ELSE 0)
       ELSE 1]

(* st is what the nested functions share and update: the number of clock
   readings made so far, the nonlocal counters nodes_explored, total_depth,
   num_non_leaf_nodes, and stats.evaluations_per_depth (clones share the
   stats object of the live game); deepest is a ghost, the largest relative
   depth of a node that search or alpha_beta_search has been called on;
   live is the Game object the search was called on (self), as the
   assignments made so far have left it *)

(* the assignments an action and a turn advance have made to the Game
   object obj, as self sees them: those to the board and its Units if obj
   has the board of self, those to the fields of the Game if obj is self *)
store(st, obj) ==
  [st EXCEPT !.live =
     [@ EXCEPT !.board = IF obj.ref.board = st.live.ref.board THEN obj.board ELSE @,
               !.attacker_has_ai = IF obj.ref.self = st.live.ref.self THEN obj.attacker_has_ai ELSE @,
               !.defender_has_ai = IF obj.ref.self = st.live.ref.self THEN obj.defender_has_ai ELSE @,
               !.next_player = IF obj.ref.self = st.live.ref.self THEN obj.next_player ELSE @,
               !.turns_played = IF obj.ref.self = st.live.ref.self THEN obj.turns_played ELSE @]]

(* a call of search or alpha_beta_search on a node at relative depth depth *)
visit(st, depth) == [st EXCEPT !.deepest = IF depth > @ THEN depth ELSE @]

RECURSIVE search(_, _, _, _, _, _, _)
RECURSIVE search_children(_, _, _, _, _, _, _, _, _, _)
RECURSIVE search_child(_, _, _, _, _, _, _, _, _, _)

(* the body of the for loop of search for children[i], r being what the
   recursive call on that child returned *)
search_child(self, clk, children, i, currentDepth, maxDepth, maximizingPlayer, value, best_move, r) ==
  LET child == children[i]
      st2 == [r.st EXCEPT
                !.nodes_explored = @ + 1,
                !.num_non_leaf_nodes = @ + 1,
                !.total_depth = @ + (currentDepth - self.turns_played + 1),
                !.evaluations_per_depth = count_evaluation(@, currentDepth + 1)]
      improves == IF maximizingPlayer THEN less(value, r.score) ELSE less(r.score, value)
  IN  IF r.raised # "None" THEN r
      ELSE IF ~is_number(r.score)
        THEN [score |-> value, move |-> best_move, raised |-> "TypeError", st |-> st2]
      ELSE search_children(self, clk, children, i + 1, currentDepth, maxDepth, maximizingPlayer,
                           IF improves THEN r.score ELSE value,
                           IF improves THEN child.move ELSE best_move, st2)

(* the for loop of search over children[i..], with the locals value and
   best_move *)
search_children(self, clk, children, i, currentDepth, maxDepth, maximizingPlayer, value, best_move, st) ==
  IF i > Len(children)
    THEN [score |-> value, move |-> best_move, raised |-> "None", st |-> st]
  ELSE search_child(self, clk, children, i, currentDepth, maxDepth, maximizingPlayer, value,
                    best_move,
                    search(self, clk, next_turn(children[i].child_state), currentDepth + 1,
                           maxDepth, ~maximizingPlayer,
                           store(st, next_turn(children[i].child_state))))

(* get_best_move_minimax.search *)
search(self, clk, state, currentDepth, maxDepth, maximizingPlayer, st) ==
  LET at_limit == (currentDepth - self.turns_played) = maxDepth
      st0 == visit(st, currentDepth - self.turns_played)
      st1 == IF at_limit THEN st0 ELSE [st0 EXCEPT !.reads = @ + 1]
      out_of_time == ~at_limit /\ reading(clk, st1.reads) > 0
  IN  IF at_limit \/ out_of_time \/ is_finished(state)
        THEN [score |-> calculate_heuristic(state), move |-> NoneMove, raised |-> "None",
              st |-> [st1 EXCEPT !.num_non_leaf_nodes = @ - 1]]
        ELSE search_children(self, clk, get_child_states(state), 1, currentDepth, maxDepth,
                             maximizingPlayer,
                             IF maximizingPlayer THEN Inf(-1) ELSE Inf(1), NoneMove, st1)

RECURSIVE alpha_beta_search(_, _, _, _, _, _, _, _, _)
RECURSIVE alpha_beta_children(_, _, _, _, _, _, _, _, _, _, _, _)
RECURSIVE alpha_beta_child(_, _, _, _, _, _, _, _, _, _, _, _)

(* the body of the for loop of alpha_beta_search for children[i], r being
   what the recursive call on that child returned; the break leaves the
   loop as its end does *)
alpha_beta_child(self, clk, children, i, max_player, curDepth, maxDepth, bestValue, bestMove, alphaVal, betaVal, r) ==
  LET child == children[i]
      improves == IF max_player THEN less(bestValue, r.score) ELSE less(r.score, bestValue)
      value == IF improves THEN r.score ELSE bestValue
      move == IF improves THEN child.move ELSE bestMove
      alpha == IF max_player /\ less(alphaVal, value) THEN value ELSE alphaVal
      beta == IF ~max_player /\ less(value, betaVal) THEN value ELSE betaVal
  IN  IF r.raised # "None" THEN r
      ELSE IF ~is_number(r.score)
        THEN [score |-> bestValue, move |-> bestMove, raised |-> "TypeError", st |-> r.st]
      ELSE alpha_beta_children(self, clk, children,
                               IF ~less(alpha, beta) THEN Len(children) + 1 ELSE i + 1,
                               max_player, curDepth, maxDepth, value, move, alpha, beta, r.st)

(* the for loop of alpha_beta_search over children[i..], with the locals
   bestValue, bestMove, alphaVal, betaVal; bestMove is bound by the first
   child that improves bestValue *)
alpha_beta_children(self, clk, children, i, max_player, curDepth, maxDepth, bestValue, bestMove, alphaVal, betaVal, st) ==
  IF i > Len(children)
    THEN [score |-> bestValue, move |-> bestMove,
          raised |-> IF bestMove = UnboundMove THEN "UnboundLocalError" ELSE "None",
          st |-> st]
  ELSE alpha_beta_child(self, clk, children, i, max_player, curDepth, maxDepth, bestValue,
                        bestMove, alphaVal, betaVal,
                        alpha_beta_search(self, clk, ~max_player, curDepth + 1, maxDepth,
                                          next_turn(children[i].child_state), alphaVal,
                                          betaVal,
                                          store(st, next_turn(children[i].child_state))))

(* get_best_move_minimax.alpha_beta_search: the depth test is against
   node.options.max_depth, the parameter maxDepth is not read, and a leaf
   returns the method object calculate_heuristic, which is not called *)
alpha_beta_search(self, clk, max_player, curDepth, maxDepth, node, alphaVal, betaVal, st) ==
  LET at_limit == (curDepth - self.turns_played) = node.options.max_depth
      st0 == visit(st, curDepth - self.turns_played)
      st1 == IF at_limit THEN st0 ELSE [st0 EXCEPT !.reads = @ + 1]
      out_of_time == ~at_limit /\ reading(clk, st1.reads) > 0
  IN  IF at_limit \/ out_of_time \/ is_finished(node)
        THEN [score |-> Method, move |-> NoneMove, raised |-> "None", st |-> st1]
        ELSE alpha_beta_children(self, clk, get_child_states(node), 1, max_player, curDepth,
                                 maxDepth,
                                 IF max_player THEN Inf(-1) ELSE Inf(1), UnboundMove,
                                 alphaVal, betaVal, st1)

(* a quotient of two ints, kept as the pair *)
Ratio(num, den) == [num |-> num, den |-> den]

(* the while loop of get_best_move_minimax with max_depth the next depth
   limit; cur holds the locals score, best_move, average_depth and
   average_branching_factor (score and the averages unbound until the first
   iteration has run) and st *)
RECURSIVE iterative_deepening(_, _, _, _)
RECURSIVE iteration(_, _, _, _, _)

(* the body of the while loop once the search from the root has returned r:
   the exception goes on, or the locals are assigned and the loop tests
   again with max_depth + 1 *)
iteration(self, clk, max_depth, cur, r) ==
  IF r.raised # "None"
    THEN [cur EXCEPT !.raised = r.raised, !.st = r.st]
    ELSE iterative_deepening(self, clk, max_depth + 1,
           [score |-> r.score,
            move |-> r.move,
            average_depth |-> Ratio(r.st.total_depth, r.st.nodes_explored),
            average_branching_factor |->
              IF r.st.num_non_leaf_nodes # 0
                THEN Ratio(r.st.nodes_explored - 1, r.st.num_non_leaf_nodes)
                ELSE Ratio(0, 1),
            raised |-> "None",
            st |-> r.st])

iterative_deepening(self, clk, max_depth, cur) ==
  LET st1 == [cur.st EXCEPT !.reads = @ + 1]
      st2 == [st1 EXCEPT !.total_depth = 0, !.nodes_explored = 1, !.num_non_leaf_nodes = 0]
      maximize == self.next_player = Attacker
  IN  IF reading(clk, st1.reads) < 0 /\ max_depth <= self.options.max_depth
        THEN iteration(self, clk, max_depth, cur,
               IF ~self.options.alpha_beta
                 THEN search(self, clk, self, self.turns_played, max_depth, maximize, st2)
                 ELSE alpha_beta_search(self, clk, maximize, self.turns_played, max_depth, self,
                                        Num(MIN_HEURISTIC_SCORE), Num(MAX_HEURISTIC_SCORE),
                                        st2))
      ELSE IF cur.score = UnboundScore
        THEN [cur EXCEPT !.raised = "UnboundLocalError", !.st = st1]
      ELSE [cur EXCEPT !.st = st1]

(* Game.get_best_move_minimax: (score, best_move, average_depth,
   average_branching_factor), or the exception raised *)
get_best_move_minimax(self, clk) ==
  iterative_deepening(self, clk, 1,
    [score |-> UnboundScore,
     move |-> NoneMove,
     average_depth |-> Ratio(0, 0),
     average_branching_factor |-> Ratio(0, 0),
     raised |-> "None",
     st |-> [reads |-> 0, nodes_explored |-> 0, total_depth |-> 0, num_non_leaf_nodes |-> 0,
             deepest |-> 0, live |-> self,
             evaluations_per_depth |-> self.stats.evaluations_per_depth]])

----------------------------------------------------------------------------
(* The main loop: Game.has_winner, then Game.human_turn (read_move,
   perform_move, retry on an invalid move, Game.next_turn) or
   Game.computer_turn (suggest_move, perform_move, Game.next_turn) *)

VARIABLES
  game,     \* the live Game object
  pc,       \* "loop": top of the main loop / waiting for a move;
            \* "suggested": suggest_move has just returned a move;
            \* "rejected": perform_move has just returned failure;
            \* "advance": perform_move has just returned success;
            \* "timeout": suggest_move has just raised RuntimeError;
            \* "done": the main loop has ended by its break;
            \* "exit": main has called exit(1);
            \* "crashed": an exception nobody catches has ended the program
  mv,       \* the CoordPair handed to perform_move
  result,   \* what perform_move returned: (success, action_type)
  pre,      \* the Game as it was when perform_move, or suggest_move, was called
  winner,   \* the winner the main loop announced
  found,    \* what get_best_move_minimax returned or raised in this turn
  clock     \* the clock that search ran against

vars == <<game, pc, mv, result, pre, winner, found, clock>>

NoMove == CoordPair(Coord(0, 0), Coord(0, 0))

(* the coordinate pairs a player or a broker may submit: any cell or one
   coordinate off the board as source; as destination the source itself, its
   four neighbours (off the board at an edge) and one diagonal neighbour *)
Sources == Cells \cup {Coord(-1, 0)}
Destinations(src) ==
  {src, Coord(Row(src) + 1, Col(src) + 1)} \cup {iter_adjacent(src)[i] : i \in 1..4}
Submitted == UNION {{CoordPair(src, dst) : dst \in Destinations(src)} : src \in Sources}

(* one turn of play as human_turn does it: perform_move, and next_turn when
   the move was accepted *)
play(g, coords) ==
  LET v == is_valid_move(g, coords)
  IN  IF v.ok
        THEN [next_turn(do_move_action(g, coords, v.action_type)) EXCEPT !.dead_units = {}]
        ELSE g

(* no search has run in this turn *)
NoSearch ==
  [score |-> UnboundScore,
   move |-> NoneMove,
   average_depth |-> Ratio(0, 0),
   average_branching_factor |-> Ratio(0, 0),
   raised |-> "None",
   st |-> [reads |-> 0, nodes_explored |-> 0, total_depth |-> 0, num_non_leaf_nodes |-> 0,
           deepest |-> 0, live |-> NewGame(0),
           evaluations_per_depth |-> [d \in {} |-> 0]]]
NoClock == [lt |-> 0, eq |-> 0]

Start(g) ==
  /\ game = g
  /\ pc = "loop"
  /\ mv = NoMove
  /\ result = Invalid
  /\ pre = g
  /\ winner = NoWinner
  /\ found = NoSearch
  /\ clock = NoClock

(* the branch of the main loop: a human, or the broker, plays this turn *)
human_to_move(g) ==
  \/ g.options.game_type = "AttackerVsDefender"
  \/ g.options.game_type = "AttackerVsComp" /\ g.next_player = Attacker
  \/ g.options.game_type = "CompVsDefender" /\ g.next_player = Defender

(* Game(options=options) in main *)
Init == Start(NewGame(MaxTurns))

(* Game.perform_move on a submitted pair, called from human_turn while the
   main loop has found no winner *)
PerformMove(coords) ==
  /\ pc = "loop"
  /\ has_winner(game) = NoWinner
  /\ human_to_move(game)
  /\ LET v == is_valid_move(game, coords)
         g0 == [game EXCEPT !.dead_units = {}]
     IN  /\ mv' = coords
         /\ pre' = game
         /\ result' = v
         /\ IF v.ok
              THEN /\ game' = do_move_action(g0, coords, v.action_type)
                   /\ pc' = "advance"
              ELSE /\ game' = game
                   /\ pc' = "rejected"
  /\ UNCHANGED <<winner, found, clock>>

(* human_turn after a failed perform_move: report and read another move;
   computer_turn after a failed perform_move: return to the main loop, which
   has the same player choose again *)
Retry ==
  /\ pc = "rejected"
  /\ pc' = "loop"
  /\ mv' = NoMove
  /\ result' = Invalid
  /\ pre' = game
  /\ found' = NoSearch
  /\ clock' = NoClock
  /\ UNCHANGED <<game, winner>>

(* human_turn and computer_turn after a successful perform_move:
   Game.next_turn *)
NextTurn ==
  /\ pc = "advance"
  /\ game' = [next_turn(game) EXCEPT !.dead_units = {}]
  /\ pc' = "loop"
  /\ mv' = NoMove
  /\ result' = Invalid
  /\ pre' = game'
  /\ found' = NoSearch
  /\ clock' = NoClock
  /\ UNCHANGED winner

(* the main loop finds a winner and ends *)
GameOver ==
  /\ pc = "loop"
  /\ has_winner(game) # NoWinner
  /\ winner' = has_winner(game)
  /\ pc' = "done"
  /\ UNCHANGED <<game, mv, result, pre, found, clock>>

Next ==
  \/ \E coords \in Submitted : PerformMove(coords)
  \/ Retry
  \/ NextTurn
  \/ GameOver

Spec == Init /\ [][Next]_vars

----------------------------------------------------------------------------
(* Play continued from the middle of a game.  Opening is a game of accepted
   moves from the initial deployment (Attacker first, in the move notation
   C4C3 B1C1 C3C2 A2B2 D4C4 A1B1 C4C3 A0A1 E4D4 A1A2 D4C4 A2A3 C4B4 A3A4
   C3B3 A4B4 B4A4 B1A1 E3E4 A1A2 E4E3 A2A3 E3E4): the two Programs meet
   after three turns, the two Command units meet at A4/B4 after fourteen and
   fight each other down to health 3, then a Defender Technician joins its
   Command unit. *)
Opening ==
  << from_quad(2, 4, 2, 3), from_quad(1, 1, 2, 1), from_quad(2, 3, 2, 2),
     from_quad(0, 2, 1, 2), from_quad(3, 4, 2, 4), from_quad(0, 1, 1, 1),
     from_quad(2, 4, 2, 3), from_quad(0, 0, 0, 1), from_quad(4, 4, 3, 4),
     from_quad(0, 1, 0, 2), from_quad(3, 4, 2, 4), from_quad(0, 2, 0, 3),
     from_quad(2, 4, 1, 4), from_quad(0, 3, 0, 4), from_quad(2, 3, 1, 3),
     from_quad(0, 4, 1, 4), from_quad(1, 4, 0, 4), from_quad(1, 1, 0, 1),
     from_quad(4, 3, 4, 4), from_quad(0, 1, 0, 2), from_quad(4, 4, 4, 3),
     from_quad(0, 2, 0, 3), from_quad(4, 3, 4, 4) >>

(* the game after turns i..k of Opening have been played on g *)
RECURSIVE replay(_, _, _)
replay(g, i, k) ==
  IF i > k THEN g
  ELSE LET h == play(g, Opening[i])
       IN  IF h.turns_played = i THEN replay(h, i + 1, k) ELSE h

(* the numbers of turns of Opening after which free play takes over *)
Checkpoints == {0, 3, 14, 22, 23}

(* A second game of accepted moves from the initial deployment (C4B4 A2A3
   D3C3 A3A4 C3B3 A1A2 B3A3 A2B2 E3D3 A0A1 D3E3 A1A2 A3A2 A2A3 A3A2 A2A3
   E3D3): the Attacker's Firewall walks up to A3, the Defender's Command
   unit walks to A2 with a Technician below it at B2, and the Command unit
   and the Firewall exchange four attacks of 1, which leaves them at health
   5, the Technician at health 9, and the Defender to move. *)
Skirmish ==
  << from_quad(2, 4, 1, 4), from_quad(0, 2, 0, 3), from_quad(3, 3, 2, 3),
     from_quad(0, 3, 0, 4), from_quad(2, 3, 1, 3), from_quad(0, 1, 0, 2),
     from_quad(1, 3, 0, 3), from_quad(0, 2, 1, 2), from_quad(4, 3, 3, 3),
     from_quad(0, 0, 0, 1), from_quad(3, 3, 4, 3), from_quad(0, 1, 0, 2),
     from_quad(0, 3, 0, 2), from_quad(0, 2, 0, 3), from_quad(0, 3, 0, 2),
     from_quad(0, 2, 0, 3), from_quad(4, 3, 3, 3) >>

(* the game after turns i..k of Skirmish have been played on g *)
RECURSIVE replay_skirmish(_, _, _)
replay_skirmish(g, i, k) ==
  IF i > k THEN g
  ELSE LET h == play(g, Skirmish[i])
       IN  IF h.turns_played = i THEN replay_skirmish(h, i + 1, k) ELSE h

(* a game configured with max_turns = k + Horizon, observed from turn k on:
   after k turns of Opening, or after the whole of Skirmish *)
InitMid ==
  \/ \E k \in Checkpoints : Start(replay(NewGame(k + Horizon), 1, k))
  \/ LET k == Len(Skirmish)
     IN  Start(replay_skirmish(NewGame(k + Horizon), 1, k))

SpecMid == InitMid /\ [][Next]_vars

----------------------------------------------------------------------------
(* Play against the computer, or of the computer against itself. *)

(* the clocks a search is run against: the deadline test comes out "less"
   for the first lt readings, with lt up to MaxTicks, or for all of them *)
MaxTicks == 4
Never == 1000000
Clocks ==
  {[lt |-> a, eq |-> e] : a \in 0..MaxTicks, e \in 0..1} \cup {[lt |-> Never, eq |-> 0]}

(* Game.suggest_move, called first by computer_turn: get_best_move_minimax
   run against the clock clk, which updates the shared stats; late says
   whether the elapsed time suggest_move then measures exceeds
   options.max_time, in which case it raises RuntimeError.  An exception of
   the search is caught by nobody.  When the move is None computer_turn
   returns None and main calls exit(1). *)
SuggestMove(clk, late) ==
  /\ pc = "loop"
  /\ has_winner(game) = NoWinner
  /\ ~human_to_move(game)
  /\ found' = get_best_move_minimax(game, clk)
  /\ game' = [found'.st.live EXCEPT
                !.stats.evaluations_per_depth = found'.st.evaluations_per_depth]
  /\ pc' = IF found'.raised # "None" THEN "crashed"
           ELSE IF late THEN "timeout"
           ELSE IF found'.move = NoneMove THEN "exit"
           ELSE "suggested"
  /\ clock' = clk
  /\ pre' = game
  /\ UNCHANGED <<mv, result, winner>>

(* mutant of computer_turn: next_turn is called before perform_move, not
   after it *)
ComputerMove_turn_first ==
  /\ pc = "suggested"
  /\ LET v == is_valid_move(next_turn(game), found.move)
         g0 == [next_turn(game) EXCEPT !.dead_units = {}]
     IN  /\ mv' = found.move
         /\ pre' = game
         /\ result' = v
         /\ IF v.ok
              THEN /\ game' = do_move_action(g0, found.move, v.action_type)
                   /\ pc' = "advance"
              ELSE /\ game' = g0
                   /\ pc' = "rejected"
  /\ UNCHANGED <<winner, found, clock>>

(* computer_turn after suggest_move has returned a move: Game.perform_move *)
ComputerMove ==
  /\ pc = "suggested"
  /\ LET v == is_valid_move(game, found.move)
         g0 == [game EXCEPT !.dead_units = {}]
     IN  /\ mv' = found.move
         /\ pre' = game
         /\ result' = v
         /\ IF v.ok
              THEN /\ game' = do_move_action(g0, found.move, v.action_type)
                   /\ pc' = "advance"
              ELSE /\ game' = game
                   /\ pc' = "rejected"
  /\ UNCHANGED <<winner, found, clock>>

(* mutant of main's handler of RuntimeError: next_turn is not called *)
TimeOut_no_next_turn ==
  /\ pc = "timeout"
  /\ game' = game
  /\ winner' = game.next_player
  /\ pc' = "done"
  /\ UNCHANGED <<mv, result, pre, found, clock>>

(* main's handler of RuntimeError: Game.next_turn, the player then to move
   is announced as the winner, break *)
TimeOut ==
  /\ pc = "timeout"
  /\ game' = next_turn(game)
  /\ winner' = next_turn(game).next_player
  /\ pc' = "done"
  /\ UNCHANGED <<mv, result, pre, found, clock>>

NextAI ==
  \/ \E coords \in Submitted : PerformMove(coords)
  \/ \E clk \in Clocks : \E late \in BOOLEAN : SuggestMove(clk, late)
  \/ ComputerMove
  \/ Retry
  \/ NextTurn
  \/ TimeOut
  \/ GameOver

(* the options main is started with: the four of --game_type, --alpha_beta,
   --max_depth, --heuristic; the last one is the program's defaults with
   --game_type auto *)
Setups ==
  { [game_type |-> "CompVsComp", alpha_beta |-> FALSE, max_depth |-> 2, heuristic |-> "e2"],
    [game_type |-> "AttackerVsComp", alpha_beta |-> FALSE, max_depth |-> 1, heuristic |-> "e2"],
    [game_type |-> "CompVsDefender", alpha_beta |-> FALSE, max_depth |-> 1, heuristic |-> "e0"],
    [game_type |-> "CompVsComp", alpha_beta |-> TRUE, max_depth |-> 4, heuristic |-> "e0"] }

(* Game(options=options) in main, with --max_turns MaxTurns *)
InitAI ==
  \E s \in Setups :
    Start([NewGame(MaxTurns) EXCEPT
             !.options.game_type = s.game_type,
             !.options.alpha_beta = s.alpha_beta,
             !.options.max_depth = s.max_depth,
             !.options.heuristic = s.heuristic])

SpecAI == InitAI /\ [][NextAI]_vars

----------------------------------------------------------------------------
(* Vocabulary of the properties, stated on boards and cells directly *)

Occupied(g, c) == g.board[c] # NoUnit

Abs(n) == IF n < 0 THEN -n ELSE n

(* c and d are orthogonal neighbours *)
Adjacent4(c, d) == Abs(Row(c) - Row(d)) + Abs(Col(c) - Col(d)) = 1

(* d lies in the 3x3 square centred on c, c excluded *)
Around(c, d) == Abs(Row(c) - Row(d)) <= 1 /\ Abs(Col(c) - Col(d)) <= 1 /\ c # d

(* player p has a Command unit on the board *)
CommandOnBoard(g, p) ==
  \E c \in Cells : g.board[c].player = p /\ g.board[c].type = "AI"

(* what is left in a cell that held unit u when u's health becomes h *)
Remains(u, h) == IF h <= 0 THEN NoUnit ELSE [u EXCEPT !.health = h]

Max0(n) == IF n < 0 THEN 0 ELSE n
Min2(n) == IF n < 2 THEN n ELSE 2

(* perform_move has just applied an action of this kind *)
Applied(kind) == pc = "advance" /\ result.ok /\ result.action_type = kind

----------------------------------------------------------------------------
(* C1: in every reachable state every unit, on the board or just unlinked
   from it, has a health in 0..9. *)
C1_HealthInRange ==
  /\ \A c \in Cells : game.board[c].health \in 0..9
  /\ \A d \in game.dead_units : d.unit.health \in 0..9

(* a self-destruct has hit a neighbour that had health 1: the subtraction of
   2 went below 0 and was clamped *)
C1_Witness ==
  /\ Applied("SelfDestruct")
  /\ \E d \in game.dead_units :
       /\ d.coord # mv.src
       /\ pre.board[d.coord].health = 1
       /\ d.unit.health = 0

(* C2: after an Attack, Repair or SelfDestruct no cell holds a unit with
   health 0; a unit that dropped to 0 is off the board in the same action. *)
C2_NoDeadOnBoard ==
  (Applied("Attack") \/ Applied("Repair") \/ Applied("SelfDestruct")) =>
    /\ \A c \in Cells : Occupied(game, c) => game.board[c].health > 0
    /\ \A d \in game.dead_units : ~Occupied(game, d.coord)

(* an Attack has killed the attacked unit *)
C2_Witness ==
  /\ Applied("Attack")
  /\ Occupied(pre, mv.dst)
  /\ pre.board[mv.dst].health <= damage_table[pre.board[mv.src].type][pre.board[mv.dst].type]
  /\ ~Occupied(game, mv.dst)

(* C3: an Attack of A (at src) on B (at dst) leaves B with
   max(0, hB - damage_table[A][B]) and A with max(0, hA - damage_table[B][A]),
   both from the healths before the attack; a unit left with 0 is removed. *)
C3_SimultaneousFight ==
  Applied("Attack") =>
    LET a == pre.board[mv.src]
        b == pre.board[mv.dst]
    IN  /\ game.board[mv.src] = Remains(a, Max0(a.health - damage_table[b.type][a.type]))
        /\ game.board[mv.dst] = Remains(b, Max0(b.health - damage_table[a.type][b.type]))

(* two opposing Programs at health 9 have fought and both are at health 6 *)
C3_Witness ==
  /\ Applied("Attack")
  /\ pre.board[mv.src].type = "Program" /\ pre.board[mv.src].health = 9
  /\ pre.board[mv.dst].type = "Program" /\ pre.board[mv.dst].health = 9
  /\ pre.board[mv.src].player # pre.board[mv.dst].player
  /\ game.board[mv.src].health = 6
  /\ game.board[mv.dst].health = 6

(* C4: a step in which a player's Command unit leaves the board for good
   (it was on the board before the step and no Command unit of that player
   is on the board after it) sets that player's has-AI flag to false and
   leaves the unit's cell empty; and a has-AI flag that is false stays false. *)
C4_Destroyed(p, flag, flag_after) ==
  /\ \A c \in Cells :
       (game.board[c].player = p /\ game.board[c].type = "AI"
          /\ ~CommandOnBoard(game', p))
       => (~flag_after /\ game'.board[c] = NoUnit)
  /\ (~flag => ~flag_after)

C4_CommandUnitDeath ==
  [][ /\ C4_Destroyed(Attacker, game.attacker_has_ai, game'.attacker_has_ai)
      /\ C4_Destroyed(Defender, game.defender_has_ai, game'.defender_has_ai) ]_vars

(* an Attack has reduced the Attacker's Command unit to health 0 *)
C4_Witness ==
  /\ Applied("Attack")
  /\ \E c \in {mv.src, mv.dst} :
       /\ pre.board[c].player = Attacker /\ pre.board[c].type = "AI"
       /\ ~Occupied(game, c)
  /\ ~game.attacker_has_ai

(* C5: a SelfDestruct at C lowers the health of every unit in the 3x3 square
   around C by min(2, health), removes those that reach 0, empties C and
   changes no other cell. *)
C5_SelfDestruct ==
  Applied("SelfDestruct") =>
    \A c \in Cells :
      IF c = mv.src THEN game.board[c] = NoUnit
      ELSE IF Around(mv.src, c) /\ Occupied(pre, c)
        THEN game.board[c] =
               Remains(pre.board[c], pre.board[c].health - Min2(pre.board[c].health))
      ELSE game.board[c] = pre.board[c]

(* a self-destruct with a neighbour of each owner, one neighbour at health 1
   or 2 (removed), one above 2 (kept), and a unit outside the square *)
C5_Witness ==
  /\ Applied("SelfDestruct")
  /\ \E c \in Cells : Around(mv.src, c) /\ pre.board[c].player = Attacker
  /\ \E c \in Cells : Around(mv.src, c) /\ pre.board[c].player = Defender
  /\ \E c \in Cells : Around(mv.src, c) /\ pre.board[c].health = 1 /\ ~Occupied(game, c)
  /\ \E c \in Cells : Around(mv.src, c) /\ pre.board[c].health > 2
                        /\ game.board[c].health = pre.board[c].health - 2
  /\ \E c \in Cells : ~Around(mv.src, c) /\ c # mv.src /\ Occupied(pre, c)

(* C6: a Move (src, dst) leaves in dst the unit that was at src, unchanged,
   empties src and changes no other cell, neither has-AI flag, nor the
   player to move, nor the turn counter. *)
C6_MoveFrame ==
  Applied("Move") =>
    /\ Occupied(pre, mv.src)
    /\ game.board[mv.dst] = pre.board[mv.src]
    /\ game.board[mv.src] = NoUnit
    /\ \A c \in Cells \ {mv.src, mv.dst} : game.board[c] = pre.board[c]
    /\ game.attacker_has_ai = pre.attacker_has_ai
    /\ game.defender_has_ai = pre.defender_has_ai
    /\ game.next_player = pre.next_player
    /\ game.turns_played = pre.turns_played

(* a damaged unit has moved while other units stayed where they were *)
C6_Witness ==
  /\ Applied("Move")
  /\ pre.board[mv.src].health \in 1..8
  /\ game.board[mv.dst] = pre.board[mv.src]
  /\ ~Occupied(game, mv.src)
  /\ \E c \in Cells \ {mv.src, mv.dst} : Occupied(game, c)

(* C7 as stated: after an Attack or a Repair the occupied cells are those
   occupied before. *)
C7_Original ==
  (Applied("Attack") \/ Applied("Repair")) =>
    \A c \in Cells : Occupied(game, c) <=> Occupied(pre, c)

(* the table damage that the unit at c takes in the Attack mv on board g *)
DamageTaken(g, c) ==
  IF c = mv.src THEN damage_table[g.board[mv.dst].type][g.board[mv.src].type]
  ELSE damage_table[g.board[mv.src].type][g.board[mv.dst].type]

(* C7 amended: after a Repair the occupied cells are those occupied before;
   after an Attack they are those occupied before except the cells of the
   attacking and the attacked unit whose health the Attack reduced to 0;
   every unit still on the board is in its cell with its owner and type. *)
C7_OccupancyFrame ==
  (Applied("Attack") \/ Applied("Repair")) =>
    \A c \in Cells :
      LET killed == /\ Applied("Attack")
                    /\ c \in {mv.src, mv.dst}
                    /\ pre.board[c].health <= DamageTaken(pre, c)
      IN  /\ Occupied(game, c) <=> (Occupied(pre, c) /\ ~killed)
          /\ Occupied(game, c) =>
               /\ game.board[c].player = pre.board[c].player
               /\ game.board[c].type = pre.board[c].type
          /\ (Occupied(game, c) /\ c \notin {mv.src, mv.dst}) =>
               game.board[c] = pre.board[c]

(* an Attack in which the attacking and the attacked unit both died *)
C7_Witness ==
  /\ Applied("Attack")
  /\ ~Occupied(game, mv.src)
  /\ ~Occupied(game, mv.dst)

(* the cells of the board orthogonally adjacent to c *)
Neighbours(c) ==
  { Coord(Row(c) - 1, Col(c)), Coord(Row(c) + 1, Col(c)),
    Coord(Row(c), Col(c) - 1), Coord(Row(c), Col(c) + 1) } \cap Cells

(* the unit at src has an enemy unit in an orthogonally adjacent cell *)
Engaged(g, src) ==
  \E c \in Neighbours(src) :
    Occupied(g, c) /\ g.board[c].player # g.board[src].player

(* the direction rule of section 4.2(5), by owner and type *)
ForwardOnly == {"AI", "Program", "Firewall"}
DirectionAllowed(u, src, dst) ==
  IF u.type \in ForwardOnly
    THEN IF u.player = Attacker
           THEN dst = Coord(Row(src) - 1, Col(src)) \/ dst = Coord(Row(src), Col(src) - 1)
           ELSE dst = Coord(Row(src) + 1, Col(src)) \/ dst = Coord(Row(src), Col(src) + 1)
    ELSE (u.player = Attacker /\ u.type = "Virus") \/ (u.player = Defender /\ u.type = "Tech")

(* C8: for a unit of the player to move that has an enemy in its
   4-neighbourhood, every Move into an empty adjacent cell is rejected if
   the unit is a Command unit, a Program or a Firewall, and accepted as a
   Move if it is a Technician or a Virus and its movement rule allows the
   direction. *)
C8_EngagedMove ==
  \A src \in Cells :
    ( /\ Occupied(game, src)
      /\ game.board[src].player = game.next_player
      /\ Engaged(game, src) )
    => \A dst \in Neighbours(src) :
         ~Occupied(game, dst) =>
           LET u == game.board[src]
               v == is_valid_move(game, CoordPair(src, dst))
           IN  /\ u.type \in ForwardOnly => ~v.ok
               /\ (u.type \notin ForwardOnly /\ DirectionAllowed(u, src, dst))
                    => (v.ok /\ v.action_type = "Move")

(* perform_move has rejected the Move of an engaged Command unit, Program or
   Firewall into an empty adjacent cell in a direction its rule allows *)
C8_Witness ==
  /\ pc = "rejected"
  /\ ~result.ok
  /\ mv.src \in Cells /\ mv.dst \in Cells
  /\ Occupied(game, mv.src)
  /\ game.board[mv.src].player = game.next_player
  /\ game.board[mv.src].type \in ForwardOnly
  /\ Engaged(game, mv.src)
  /\ Adjacent4(mv.src, mv.dst)
  /\ ~Occupied(game, mv.dst)
  /\ DirectionAllowed(game.board[mv.src], mv.src, mv.dst)

(* C9: once the turn counter has reached the configured maximum the winner
   check reports Defender, whatever is on the board, and that is the winner
   the main loop announces. *)
C9_TurnLimit ==
  game.turns_played >= game.options.max_turns =>
    /\ has_winner(game) = Defender
    /\ pc = "done" => winner = Defender

(* the game ended at the turn limit with only the Attacker's Command unit
   on the board *)
C9_Witness ==
  /\ pc = "done"
  /\ game.turns_played >= game.options.max_turns
  /\ CommandOnBoard(game, Attacker)
  /\ ~CommandOnBoard(game, Defender)
  /\ winner = Defender

(* C10: below the turn limit the winner check reports no winner iff both
   Command units are on the board, Attacker iff only the Attacker's is, and
   Defender iff the Attacker's is not (the Defender's alive or destroyed). *)
C10_WinnerBelowLimit ==
  game.turns_played < game.options.max_turns =>
    LET a == CommandOnBoard(game, Attacker)
        d == CommandOnBoard(game, Defender)
        w == has_winner(game)
    IN  /\ (w = NoWinner) <=> (a /\ d)
        /\ (w = Attacker) <=> (a /\ ~d)
        /\ (w = Defender) <=> ~a
        /\ pc = "done" => winner = w

(* the game ended below the turn limit with both Command units destroyed,
   and the Defender was announced *)
C10_Witness ==
  /\ pc = "done"
  /\ game.turns_played < game.options.max_turns
  /\ ~CommandOnBoard(game, Attacker)
  /\ ~CommandOnBoard(game, Defender)
  /\ winner = Defender

----------------------------------------------------------------------------
(* the SelfDestruct candidates of the player to move, as source cells *)
SelfDestructSources(g) ==
  LET cands == move_candidates(g)
  IN  {cands[i].move.src : i \in {j \in 1..Len(cands) : cands[j].action_type = "SelfDestruct"}}

(* C12: in every state, move generation for the player to move yields the
   SelfDestruct candidate (C, C) for each unit that player owns at a cell C,
   the unit being alive, and yields no SelfDestruct candidate for a cell that
   is empty or holds a unit of the opponent; every SelfDestruct candidate
   has its source as destination. *)
C12_SelfDestructCandidates ==
  LET cands == move_candidates(game)
  IN  /\ \A c \in Cells :
           (\E i \in 1..Len(cands) :
               cands[i] = [move |-> CoordPair(c, c), action_type |-> "SelfDestruct"])
             <=> (game.board[c] # NoUnit /\ game.board[c].player = game.next_player
                    /\ game.board[c].health > 0)
      /\ \A i \in 1..Len(cands) :
           cands[i].action_type = "SelfDestruct" <=> cands[i].move.src = cands[i].move.dst

(* a player who has lost a unit is to move next to an empty cell and to a
   unit of the opponent, and move generation yields the self-destruct of
   each of the units it has left *)
C12_Witness ==
  /\ pc = "loop"
  /\ Cardinality(SelfDestructSources(game)) \in 1..5
  /\ SelfDestructSources(game) =
       {c \in Cells : game.board[c].player = game.next_player}
  /\ \E c \in Cells : game.board[c] = NoUnit
  /\ \E c \in Cells : game.board[c].player = next(game.next_player)

----------------------------------------------------------------------------
(* perform_move was handed the repair of a Command unit at health h by a
   Technician of the player to move at health 9 next to it *)
TechnicianRepairs(h) ==
  /\ pc \in {"rejected", "advance"}
  /\ mv.src \in Cells /\ mv.dst \in Cells /\ Adjacent4(mv.src, mv.dst)
  /\ pre.board[mv.src] = Unit(pre.next_player, "Tech", 9)
  /\ pre.board[mv.dst] = Unit(pre.next_player, "AI", h)

(* C13 as stated: a Technician at health 9 that repairs an adjacent friendly
   Command unit at health 5 leaves it at health 6, and the same repair is
   rejected when the Command unit is at health 9. *)
C13_Original ==
  /\ TechnicianRepairs(5) => (Applied("Repair") /\ game.board[mv.dst].health = 6)
  /\ TechnicianRepairs(9) => (pc = "rejected" /\ game = pre)

(* C13, amended: a Technician at health 9 that repairs an adjacent friendly
   Command unit at health 5 leaves it at health 8 and changes nothing else
   on the board, and the same repair is rejected when the Command unit is at
   health 9. *)
C13_TechnicianRepair ==
  /\ TechnicianRepairs(5) =>
       /\ Applied("Repair")
       /\ game.board = [pre.board EXCEPT ![mv.dst] = Unit(pre.next_player, "AI", 8)]
  /\ TechnicianRepairs(9) => (pc = "rejected" /\ game = pre)

(* the Technician at health 9 has repaired its Command unit, which was at
   health 5 *)
C13_Witness == TechnicianRepairs(5) /\ Applied("Repair")

----------------------------------------------------------------------------
(* C14: a step in which perform_move succeeds changes neither the player
   to move nor the number of turns played; a step that changes either of
   them is the turn advance that follows an accepted move, and it hands the
   move to the other player and adds one turn. *)
C14_NoTurnAdvance ==
  [][ /\ (pc = "loop" /\ pc' = "advance") =>
           /\ game'.next_player = game.next_player
           /\ game'.turns_played = game.turns_played
      /\ (game'.next_player # game.next_player \/ game'.turns_played # game.turns_played) =>
           /\ pc = "advance" /\ pc' = "loop"
           /\ game'.next_player = next(game.next_player)
           /\ game'.turns_played = game.turns_played + 1
           /\ game'.board = game.board ]_vars

(* perform_move has applied an attack that destroyed a unit, in a turn after
   the first, and the player to move and the turn count are those of before *)
C14_Witness ==
  /\ Applied("Attack")
  /\ game.dead_units # {}
  /\ game.turns_played > 0
  /\ game.next_player = pre.next_player
  /\ game.turns_played = pre.turns_played

----------------------------------------------------------------------------
(* the repair table of section 4.1, by type of healer and of target *)
RepairValue(healer, target) ==
  IF healer = "AI" /\ target \in {"Virus", "Tech"} THEN 1
  ELSE IF healer = "Tech" /\ target \in {"AI", "Firewall", "Program"} THEN 3
  ELSE 0

(* the reasons for which section 4.2 rejects the pair m in game g *)
OutOfBounds(m) == m.src \notin Cells \/ m.dst \notin Cells
NotOwned(g, m) ==
  m.src \in Cells /\ (g.board[m.src] = NoUnit \/ g.board[m.src].player # g.next_player)
NotAdjacent(m) == m.src # m.dst /\ ~Adjacent4(m.src, m.dst)
IllegalDirection(g, m) ==
  /\ Adjacent4(m.src, m.dst) /\ g.board[m.dst] = NoUnit
  /\ ~DirectionAllowed(g.board[m.src], m.src, m.dst)
EngagedMove(g, m) ==
  /\ Adjacent4(m.src, m.dst) /\ g.board[m.dst] = NoUnit
  /\ g.board[m.src].type \in ForwardOnly /\ Engaged(g, m.src)
IllegalRepair(g, m) ==
  /\ Adjacent4(m.src, m.dst) /\ g.board[m.dst].player = g.next_player
  /\ \/ RepairValue(g.board[m.src].type, g.board[m.dst].type) = 0
     \/ g.board[m.dst].health = 9

Rejectable(g, m) ==
  \/ OutOfBounds(m)
  \/ NotOwned(g, m)
  \/ ~OutOfBounds(m) /\ ~NotOwned(g, m) /\
       (NotAdjacent(m) \/ IllegalDirection(g, m) \/ EngagedMove(g, m) \/ IllegalRepair(g, m))

(* C15: when the pair handed to perform_move is out of bounds, has a source
   that is empty or not owned by the player to move, is not adjacent, is a
   move in an illegal direction or by an engaged unit, or is an illegal
   repair, perform_move returns failure with no action kind; and whenever it
   returns failure the board, every unit's health, both has-AI flags, the
   player to move and the number of turns played are as they were. *)
C15_RejectedUntouched ==
  /\ (pc \in {"rejected", "advance"} /\ Rejectable(pre, mv)) => pc = "rejected"
  /\ pc = "rejected" =>
       /\ result = [ok |-> FALSE, action_type |-> NoAction]
       /\ game.board = pre.board
       /\ game.attacker_has_ai = pre.attacker_has_ai
       /\ game.defender_has_ai = pre.defender_has_ai
       /\ game.next_player = pre.next_player
       /\ game.turns_played = pre.turns_played

(* perform_move has rejected the repair of a unit at full health by a
   Technician next to it, in a game in which units have been damaged *)
C15_Witness ==
  /\ pc = "rejected"
  /\ ~OutOfBounds(mv) /\ ~NotOwned(pre, mv) /\ IllegalRepair(pre, mv)
  /\ pre.board[mv.src].type = "Tech"
  /\ pre.board[mv.dst].health = 9
  /\ RepairValue("Tech", pre.board[mv.dst].type) = 3
  /\ \E c \in Cells : game.board[c] # NoUnit /\ game.board[c].health < 9

----------------------------------------------------------------------------
(* C20: every accepted action has as source a cell that held a living unit
   of the player to move, and a pair whose source is empty or holds a unit
   of the opponent is rejected. *)
C20_OwnSource ==
  /\ pc = "advance" =>
       /\ mv.src \in Cells
       /\ pre.board[mv.src] # NoUnit
       /\ pre.board[mv.src].player = pre.next_player
       /\ pre.board[mv.src].health > 0
  /\ (pc \in {"rejected", "advance"} /\ NotOwned(pre, mv)) => pc = "rejected"

(* both cases in one game: an attack by a unit of the player to move has
   been accepted after a pair whose source is a unit of the opponent next
   to a unit of the player to move would have been rejected *)
C20_Witness ==
  /\ Applied("Attack")
  /\ pre.board[mv.src].player = pre.next_player
  /\ pre.board[mv.dst].player = next(pre.next_player)
  /\ ~is_valid_move(pre, CoordPair(mv.dst, mv.src)).ok

----------------------------------------------------------------------------
(* suggest_move has run the search in this turn, and the search returned *)
Searched == found # NoSearch /\ found.raised = "None"

(* the board, the flags, the player to move and the turn count of g and h
   are the same *)
SamePosition(g, h) ==
  /\ g.board = h.board
  /\ g.attacker_has_ai = h.attacker_has_ai
  /\ g.defender_has_ai = h.defender_has_ai
  /\ g.next_player = h.next_player
  /\ g.turns_played = h.turns_played

(* C16: when the time suggest_move measures for the search exceeds the
   budget, the position is the one the search started from (no move is
   applied in that turn), the next step ends the main loop with the
   opponent of the player whose turn it was announced as the winner, and
   the board at the end is still that position's. *)
C16_TimeOutForfeits ==
  /\ [](pc = "timeout" => (Searched /\ SamePosition(game, pre) /\ winner = NoWinner))
  /\ [][pc = "timeout" =>
          /\ pc' = "done"
          /\ winner' = next(pre.next_player)
          /\ game'.board = pre.board
          /\ game'.attacker_has_ai = pre.attacker_has_ai
          /\ game'.defender_has_ai = pre.defender_has_ai]_vars

(* the search had found a move for the Defender, took too long, and the
   game has ended with the Attacker announced as the winner and the board
   as it was *)
C16_Witness ==
  /\ pc = "done"
  /\ Searched
  /\ found.move # NoneMove
  /\ pre.next_player = Defender
  /\ winner = Attacker
  /\ game.board = pre.board
  /\ game.attacker_has_ai /\ game.defender_has_ai

----------------------------------------------------------------------------
(* C17: whatever the clock and the depth limit, also when the deadline test
   fails on the first reading so that no iteration starts, the best-move
   search raises nothing and returns a tuple whose score is a number; no
   exception of the search ends the program. *)
C17_SearchNeverRaises ==
  /\ pc # "crashed"
  /\ found # NoSearch => (found.raised = "None" /\ is_number(found.score))

----------------------------------------------------------------------------
(* the clock that never reaches the deadline *)
Unhurried == [lt |-> Never, eq |-> 0]

(* the number of readings of the clock made up to the end of iteration d of
   the search on g when nothing is cut short; none for d = 0 *)
ReadsThrough(g, d) ==
  IF d = 0 THEN 0
  ELSE get_best_move_minimax([g EXCEPT !.options.max_depth = d], Unhurried).st.reads - 1

(* iteration d of the search on g against clk started and ran to its end
   with no node cut short: the test of the while loop, its first reading,
   came out "less" and no later reading came out "greater" *)
RanToCompletion(g, clk, d) ==
  /\ d \in 1..g.options.max_depth
  /\ ReadsThrough(g, d - 1) + 1 <= clk.lt
  /\ ReadsThrough(g, d) <= clk.lt + clk.eq

(* C18: when the search returns, its score and move are those of the
   deepest iteration that ran to completion, which are the score and move
   the search limited to that depth finds unhurried; in particular the move
   is not 'no move' when an iteration completed. *)
C18_DeepestCompleted ==
  (pc \in {"suggested", "exit"} /\ Searched /\ ~pre.options.alpha_beta) =>
    \A d \in 1..pre.options.max_depth :
      (RanToCompletion(pre, clock, d) /\ ~RanToCompletion(pre, clock, d + 1)) =>
        LET deepest == get_best_move_minimax([pre EXCEPT !.options.max_depth = d], Unhurried)
        IN  /\ found.score = deepest.score
            /\ found.move = deepest.move
            /\ found.move # NoneMove

----------------------------------------------------------------------------
(* C11: for the same position, depth limit and heuristic, and with no
   deadline in the way, the search with alpha-beta pruning and the search
   without return, and return the same score. *)
C11_PruningSameScore ==
  (found # NoSearch /\ clock = Unhurried) =>
    LET other == get_best_move_minimax([pre EXCEPT !.options.alpha_beta = ~@], clock)
    IN  /\ found.raised = "None"
        /\ other.raised = "None"
        /\ is_number(found.score)
        /\ other.score = found.score

----------------------------------------------------------------------------
(* the weight and the sign section 6 gives a unit under e2 *)
Weight(u) ==
  IF u.type = "AI" THEN 1000
  ELSE IF (u.player = Attacker /\ u.type = "Virus") \/ (u.player = Defender /\ u.type = "Tech")
    THEN 30
  ELSE 10
Sign(p) == IF p = Attacker THEN 1 ELSE -1

(* the sum of sign * weight * health over the units in the cells S *)
RECURSIVE WeightedHealth(_, _)
WeightedHealth(board, S) ==
  IF S = {} THEN 0
  ELSE LET c == CHOOSE x \in S : TRUE
           u == board[c]
       IN  (IF u = NoUnit THEN 0 ELSE Sign(u.player) * Weight(u) * u.health)
             + WeightedHealth(board, S \ {c})

(* C19: with e2 selected, the evaluation of the position is the sum over the
   units on the board of sign(owner) * weight * health, with weight 1000
   for a Command unit, 30 for an Attacker Virus and a Defender Technician
   and 10 for every other unit; a search cut at its root returns that sum
   for the position it started from; and a search, which evaluates
   positions, leaves the board, the flags, the player to move and the turn
   count as they were. *)
C19_HealthWeighted ==
  /\ game.options.heuristic = "e2" =>
       calculate_heuristic(game) = Num(WeightedHealth(game.board, Cells))
  /\ (Searched /\ pre.options.heuristic = "e2" /\ ~pre.options.alpha_beta
        /\ clock = [lt |-> 1, eq |-> 0]) =>
       found.score = Num(WeightedHealth(pre.board, Cells))
  /\ (Searched /\ pc \in {"suggested", "exit", "timeout"}) => SamePosition(game, pre)

(* a search under e2 has evaluated a position in which a self-destruct has
   damaged units, and the position's score is not zero *)
C19_Witness ==
  /\ pc = "exit"
  /\ Searched
  /\ clock = [lt |-> 1, eq |-> 0]
  /\ pre.options.heuristic = "e2"
  /\ found.score.val # 0
  /\ \E c \in Cells : game.board[c] # NoUnit /\ game.board[c].health < 9
  /\ SamePosition(game, pre)

----------------------------------------------------------------------------
(* the cell one step from src in a direction: Up is row - 1, Left is
   col - 1, Down is row + 1, Right is col + 1 *)
Step(src, direction) ==
  CASE direction = "Up"    -> Coord(Row(src) - 1, Col(src))
    [] direction = "Left"  -> Coord(Row(src), Col(src) - 1)
    [] direction = "Down"  -> Coord(Row(src) + 1, Col(src))
    [] direction = "Right" -> Coord(Row(src), Col(src) + 1)

(* the directions in which a unit of a type and an owner may move *)
MoveDirections(player, type) ==
  IF type \in {"AI", "Program", "Firewall"}
    THEN IF player = Attacker THEN {"Up", "Left"} ELSE {"Down", "Right"}
  ELSE IF (player = Attacker /\ type = "Virus") \/ (player = Defender /\ type = "Tech")
    THEN Direction
  ELSE {}

(* C21: a Move into an empty adjacent cell is accepted only in a direction
   that the type and the owner of the unit allow: Up or Left for the
   Attacker's Command unit, Programs and Firewalls, Down or Right for the
   Defender's, every direction for an Attacker Virus and a Defender
   Technician, none for an Attacker Technician or a Defender Virus.  Stated
   of the movement rule for every owner, type and direction, and of the
   validation of every pair from a unit of the player to move to an empty
   adjacent cell. *)
C21_MoveDirections ==
  /\ \A p \in Player : \A t \in UnitType : \A d \in Direction :
       LET src == Coord(2, 2)
       IN  is_valid_movement(Unit(p, t, 9), p, get_direction(CoordPair(src, Step(src, d))))
             <=> d \in MoveDirections(p, t)
  /\ \A src \in Cells :
       (Occupied(game, src) /\ game.board[src].player = game.next_player)
       => \A d \in Direction :
            LET dst == Step(src, d)
                u == game.board[src]
                v == is_valid_move(game, CoordPair(src, dst))
            IN  (dst \in Cells /\ ~Occupied(game, dst))
                => /\ v.ok => (v.action_type = "Move" /\ d \in MoveDirections(u.player, u.type))
                   /\ (~Engaged(game, src) /\ d \in MoveDirections(u.player, u.type)) => v.ok

(* perform_move has rejected the step of a Command unit, Program or
   Firewall that has no enemy beside it into an empty adjacent cell, in a
   direction that is not one of its two *)
C21_Witness ==
  /\ pc = "rejected"
  /\ mv.src \in Cells /\ mv.dst \in Cells
  /\ Occupied(pre, mv.src)
  /\ pre.board[mv.src].player = pre.next_player
  /\ pre.board[mv.src].type \in {"AI", "Program", "Firewall"}
  /\ ~Engaged(pre, mv.src)
  /\ ~Occupied(pre, mv.dst)
  /\ \E d \in Direction :
       mv.dst = Step(mv.src, d) /\ d \notin MoveDirections(pre.next_player, pre.board[mv.src].type)

----------------------------------------------------------------------------
(* what a healer restores to a target: its repair value, capped so that the
   target does not exceed 9 *)
CappedRepair(healer, target) ==
  LET amount == RepairValue(healer.type, target.type)
  IN  IF amount < 9 - target.health THEN amount ELSE 9 - target.health

(* C22: a pair from a unit of the player to move to an adjacent cell that
   holds a unit of the same player is accepted if and only if the source is
   a Technician or a Command unit, the capped repair amount of the source
   for the target is strictly positive and the target's health is below 9,
   and it is accepted as a Repair; an accepted Repair raises the health of
   the target by at least 1 and leaves every other cell, and the type and
   owner of the target, as they were. *)
C22_Repair ==
  /\ \A src \in Cells :
       (Occupied(game, src) /\ game.board[src].player = game.next_player)
       => \A dst \in Neighbours(src) :
            (Occupied(game, dst) /\ game.board[dst].player = game.next_player)
            => LET s == game.board[src]
                   t == game.board[dst]
                   v == is_valid_move(game, CoordPair(src, dst))
               IN  /\ v.ok <=> ( /\ s.type \in {"Tech", "AI"}
                                 /\ CappedRepair(s, t) > 0
                                 /\ t.health < 9 )
                   /\ v.ok => v.action_type = "Repair"
  /\ Applied("Repair") =>
       /\ game.board[mv.dst].health >= pre.board[mv.dst].health + 1
       /\ game.board[mv.dst].type = pre.board[mv.dst].type
       /\ game.board[mv.dst].player = pre.board[mv.dst].player
       /\ \A c \in Cells \ {mv.dst} : game.board[c] = pre.board[c]

(* perform_move has applied a Repair that the cap cut short: the target
   gained less than the repair value of its healer *)
C22_Witness ==
  /\ Applied("Repair")
  /\ game.board[mv.dst].health = 9
  /\ game.board[mv.dst].health - pre.board[mv.dst].health
       < RepairValue(pre.board[mv.src].type, pre.board[mv.dst].type)

----------------------------------------------------------------------------
(* C23: a pair from a unit of the player to move to an orthogonally
   adjacent cell that holds a unit of the other player is accepted as an
   Attack, whatever the type of the unit and the direction, whether or not
   the unit has an enemy beside it (it has: the target) and whether or not
   its movement rule allows a step in that direction. *)
C23_AttackAlwaysLegal ==
  \A src \in Cells :
    (Occupied(game, src) /\ game.board[src].player = game.next_player)
    => \A d \in Direction :
         LET dst == Step(src, d)
         IN  (dst \in Cells /\ Occupied(game, dst)
                /\ game.board[dst].player # game.next_player)
             => is_valid_move(game, CoordPair(src, dst))
                  = [ok |-> TRUE, action_type |-> "Attack"]

(* perform_move has applied the Attack of a unit in a direction in which
   its movement rule allows no step *)
C23_Witness ==
  /\ Applied("Attack")
  /\ \E d \in Direction :
       /\ mv.dst = Step(mv.src, d)
       /\ d \notin MoveDirections(pre.next_player, pre.board[mv.src].type)

----------------------------------------------------------------------------
(* the positions one ply below position g: for every pair from a unit of
   the player to move to its own cell or an orthogonally adjacent one that
   validation accepts, the action applied and the turn passed *)
Successors(g) ==
  UNION { { next_turn(do_move_action(clone(g), CoordPair(src, dst),
                                     is_valid_move(g, CoordPair(src, dst)).action_type)) :
              dst \in { d \in Neighbours(src) \cup {src} :
                          is_valid_move(g, CoordPair(src, d)).ok } } :
          src \in { c \in Cells : Occupied(g, c) /\ g.board[c].player = g.next_player } }

Largest(S) == CHOOSE x \in S : \A y \in S : y <= x
Smallest(S) == CHOOSE x \in S : \A y \in S : x <= y

(* the minimax value of position g with plies more plies to look ahead: the
   static evaluation at the horizon and in a finished game, else the
   largest of the values of the positions one ply below when the Attacker
   is to move in g and the smallest when the Defender is *)
RECURSIVE MinimaxValue(_, _)
MinimaxValue(g, plies) ==
  IF plies = 0 \/ has_winner(g) # NoWinner THEN calculate_heuristic(g).val
  ELSE LET below == { MinimaxValue(h, plies - 1) : h \in Successors(g) }
       IN  IF g.next_player = Attacker THEN Largest(below) ELSE Smallest(below)

(* the counters of a search that has not started *)
FreshCounters(g) ==
  [reads |-> 0, nodes_explored |-> 1, total_depth |-> 0, num_non_leaf_nodes |-> 0,
   deepest |-> 0, live |-> g, evaluations_per_depth |-> g.stats.evaluations_per_depth]

(* what the search of root to the depth limit max_depth, unhurried, gives
   as the value of node, a position at relative depth depth of its tree;
   the pruned search is given the full window *)
NodeValue(root, node, depth, max_depth, pruning) ==
  IF pruning
    THEN alpha_beta_search(root, Unhurried, node.next_player = Attacker,
                           root.turns_played + depth, max_depth, node,
                           Num(MIN_HEURISTIC_SCORE), Num(MAX_HEURISTIC_SCORE),
                           FreshCounters(root))
    ELSE search(root, Unhurried, node, root.turns_played + depth, max_depth,
                node.next_player = Attacker, FreshCounters(root))

(* in the given pruning mode the root of the search tree of g and every
   node one ply below it have their minimax value *)
MinimaxAtNodes(g, pruning) ==
  LET max_depth == g.options.max_depth
  IN  /\ NodeValue(g, g, 0, max_depth, pruning).raised = "None"
      /\ NodeValue(g, g, 0, max_depth, pruning).score = Num(MinimaxValue(g, max_depth))
      /\ \A h \in Successors(g) :
           /\ NodeValue(g, h, 1, max_depth, pruning).raised = "None"
           /\ NodeValue(g, h, 1, max_depth, pruning).score
                = Num(MinimaxValue(h, max_depth - 1))

(* C24: in the search of the position a computer player is to move in, with
   and without pruning, the value of a node is the largest of the values of
   its children when the Attacker is to move at the node and the smallest
   when the Defender is, whether the Attacker or the Defender is to move at
   the root. *)
C24_MinimaxAtEveryNode ==
  (pc = "loop" /\ has_winner(game) = NoWinner /\ ~human_to_move(game)) =>
    /\ MinimaxAtNodes(game, FALSE)
    /\ MinimaxAtNodes(game, TRUE)

----------------------------------------------------------------------------
(* the positions at relative depth depth of the search tree of g: those one
   ply below the positions at depth - 1 in which the game is not over *)
RECURSIVE NodesAt(_, _)
NodesAt(g, depth) ==
  IF depth = 0 THEN {g}
  ELSE UNION { Successors(h) : h \in { n \in NodesAt(g, depth - 1) : has_winner(n) = NoWinner } }

(* iteration d of the search of g, unhurried, in the given pruning mode:
   it is called on no node deeper than d plies below the root, and called
   on a node d plies below the root it returns the static evaluation of the
   node and no move, having gone no deeper *)
DepthLimited(g, d, pruning) ==
  /\ NodeValue(g, g, 0, d, pruning).st.deepest <= d
  /\ \A n \in NodesAt(g, d) :
       LET r == NodeValue(g, n, d, d, pruning)
       IN  /\ r.raised = "None"
           /\ r.score = calculate_heuristic(n)
           /\ r.move = NoneMove
           /\ r.st.deepest = d

(* C25: in the iteration with depth limit d of the search of the position
   a computer player is to move in, with and without pruning, no node more
   than d plies below the root is generated: a node d plies below the root
   returns its static evaluation with no move and is not expanded. *)
C25_DepthLimit ==
  (pc = "loop" /\ has_winner(game) = NoWinner /\ ~human_to_move(game)) =>
    \A d \in 1..game.options.max_depth :
      /\ DepthLimited(game, d, FALSE)
      /\ DepthLimited(game, d, TRUE)

----------------------------------------------------------------------------
(* the minimax values of the root moves of g, in the order in which move
   generation yields them *)
RootValues(g) ==
  LET children == get_child_states(g)
  IN  [i \in 1..Len(children) |->
         MinimaxValue(next_turn(children[i].child_state), g.options.max_depth - 1)]

(* the best of a non-empty sequence of values for the player to move in g *)
BestFor(g, values) ==
  LET S == { values[i] : i \in 1..Len(values) }
  IN  IF g.next_player = Attacker THEN Largest(S) ELSE Smallest(S)

(* several root moves of g have the best score *)
TiedAtRoot(g) ==
  LET values == RootValues(g)
  IN  \E i, j \in 1..Len(values) :
        i # j /\ values[i] = BestFor(g, values) /\ values[j] = BestFor(g, values)

(* the search of g, unhurried, in the given pruning mode returns the first
   move, in the order of generation, among the root moves with the best
   score *)
FirstOfTheBest(g, pruning) ==
  LET values == RootValues(g)
      r == NodeValue(g, g, 0, g.options.max_depth, pruning)
  IN  /\ r.raised = "None"
      /\ \E i \in 1..Len(values) :
           /\ values[i] = BestFor(g, values)
           /\ \A j \in 1..(i - 1) : values[j] # BestFor(g, values)
           /\ r.move = get_child_states(g)[i].move

(* C26: when several root moves of the position a computer player is to
   move in have the same best score, the search, pruned or not, returns the
   first of them in the order of move generation. *)
C26_FirstBestMove ==
  (pc = "loop" /\ has_winner(game) = NoWinner /\ ~human_to_move(game) /\ TiedAtRoot(game)) =>
    /\ FirstOfTheBest(game, FALSE)
    /\ FirstOfTheBest(game, TRUE)

----------------------------------------------------------------------------
(* C27: a best-move search leaves the live position as it was: when the
   search has returned or raised, the board (occupancy and every unit's
   health), both has-AI flags, the player to move and the number of turns
   played are those of the position before the search; every position the
   search acts on and advances is a clone, a Game object other than the
   one cloned with a board that is not the board of the one cloned. *)
C27_SearchLeavesLiveState ==
  /\ (pc \in {"suggested", "timeout", "exit", "crashed"} /\ found # NoSearch) =>
       /\ SamePosition(game, pre)
       /\ SamePosition(found.st.live, pre)
  /\ (pc = "loop" /\ has_winner(game) = NoWinner /\ ~human_to_move(game)) =>
       \A i \in 1..Len(get_child_states(game)) :
         LET child == get_child_states(game)[i].child_state
         IN  /\ child.ref.self # game.ref.self
             /\ child.ref.board # game.ref.board
             /\ \A j \in 1..Len(get_child_states(child)) :
                  LET grandchild == get_child_states(child)[j].child_state
                  IN  /\ grandchild.ref.self \notin {child.ref.self, game.ref.self}
                      /\ grandchild.ref.board \notin {child.ref.board, game.ref.board}

(* a search two plies deep has returned a move, having applied to a clone
   of the Defender's position the self-destruction of the Defender's
   Command unit, which damaged the units around it and cleared the clone's
   has-AI flag *)
C27_Witness ==
  /\ pc = "suggested"
  /\ found.raised = "None"
  /\ found.st.deepest >= 2
  /\ pre.next_player = Defender
  /\ \E i \in 1..Len(get_child_states(pre)) :
       LET child == get_child_states(pre)[i].child_state
       IN  /\ ~child.defender_has_ai
           /\ \E c \in Cells : child.board[c] # NoUnit /\ child.board[c].health < 9
  /\ game.defender_has_ai

----------------------------------------------------------------------------
(* the cells of g that hold a Command unit of player p *)
CommandCells(g, p) ==
  { c \in Cells : g.board[c].player = p /\ g.board[c].type = "AI" }

(* C28: in every position reached from the deployment by accepted actions
   and turn advances, the Attacker's has-AI flag is true if and only if a
   Command unit of the Attacker is on the board, the Defender's likewise,
   and each player has at most one Command unit. *)
C28_FlagsMatchBoard ==
  /\ game.attacker_has_ai <=> CommandCells(game, Attacker) # {}
  /\ game.defender_has_ai <=> CommandCells(game, Defender) # {}
  /\ Cardinality(CommandCells(game, Attacker)) <= 1
  /\ Cardinality(CommandCells(game, Defender)) <= 1

(* an accepted action has just destroyed the Command unit of one player
   while that of the other is on the board *)
C28_Witness ==
  /\ pc = "advance"
  /\ result.ok
  /\ \E p \in Player :
       /\ CommandCells(pre, p) # {}
       /\ CommandCells(game, p) = {}
       /\ CommandCells(game, next(p)) # {}

----------------------------------------------------------------------------
(* C29: in every position in which the winner check reports no winner, move
   generation for the player to move yields at least one candidate, and so
   it does in every position one ply below in which the check reports no
   winner: the list of candidates of a position the game or the search goes
   on from is never empty. *)
C29_SomeCandidate ==
  has_winner(game) = NoWinner =>
    /\ Len(move_candidates(game)) >= 1
    /\ \A h \in Successors(game) :
         has_winner(h) = NoWinner => Len(move_candidates(h)) >= 1

(* the game goes on, after a unit has been lost, in a position in which a
   unit of the player to move has no candidate but its self-destruction *)
C29_Witness ==
  /\ pc = "loop"
  /\ has_winner(game) = NoWinner
  /\ \E p \in Player : Len(player_units(game, p)) < 6
  /\ \E i \in 1..Len(player_units(game, game.next_player)) :
       Len(unit_candidates(game, player_units(game, game.next_player)[i])) = 1

----------------------------------------------------------------------------
(* the pairs of cells of the grid that validation accepts in g, each with
   the action kind validation gives it *)
Accepted(g) ==
  LET verdicts == { [move |-> CoordPair(src, dst), v |-> is_valid_move(g, CoordPair(src, dst))] :
                      src \in Cells, dst \in Cells }
  IN  { [move |-> x.move, action_type |-> x.v.action_type] : x \in { y \in verdicts : y.v.ok } }

(* the candidates move generation yields in g, as a set *)
Generated(g) ==
  LET cands == move_candidates(g)
  IN  { cands[i] : i \in 1..Len(cands) }

(* C30: the candidates that move generation yields for the player to move
   are exactly the pairs of cells of the grid that move validation accepts
   for that player, each with the action kind validation gives it: no
   candidate is illegal and no legal action is missing. *)
C30_CandidatesAreTheLegalActions ==
  Generated(game) = Accepted(game)

(* the game is at a position in which the candidates of the player to move
   include a Move, an Attack, a Repair and a SelfDestruct *)
C30_Witness ==
  /\ pc = "loop"
  /\ has_winner(game) = NoWinner
  /\ \A kind \in ActionType : \E c \in Generated(game) : c.action_type = kind

----------------------------------------------------------------------------
(* C31: whenever the best-move search returns a move for a position, move
   validation accepts that move in that position for the player to move;
   the computer turn that receives it applies it, no computer turn has its
   move rejected, and the turn is then advanced once: the next step passes
   the move to the other player and adds 1 to the number of turns played. *)
C31_ReturnedMoveIsApplied ==
  /\ [](pc = "suggested" =>
          /\ found.move # NoneMove
          /\ SamePosition(game, pre)
          /\ is_valid_move(game, found.move).ok)
  /\ []((pc \in {"advance", "rejected"} /\ found # NoSearch) =>
          /\ pc = "advance"
          /\ result.ok
          /\ mv = found.move
          /\ game.next_player = pre.next_player
          /\ game.turns_played = pre.turns_played)
  /\ [][pc = "suggested" => pc' = "advance"]_vars
  /\ [][(pc = "advance" /\ found # NoSearch) =>
          /\ pc' = "loop"
          /\ game'.next_player = next(game.next_player)
          /\ game'.turns_played = game.turns_played + 1
          /\ game'.board = game.board]_vars

(* a computer turn of the Defender has applied the move of a search whose
   second iteration the clock cut short below the root *)
C31_Witness ==
  /\ pc = "advance"
  /\ found # NoSearch
  /\ found.raised = "None"
  /\ result.ok
  /\ mv = found.move
  /\ pre.next_player = Defender
  /\ pre.options.max_depth = 2
  /\ clock # Unhurried
  /\ RanToCompletion(pre, clock, 1)
  /\ ~RanToCompletion(pre, clock, 2)

----------------------------------------------------------------------------

(* C32: in every state reached from the constructed game by accepted
   actions each followed by one turn advance, the player to move is the
   Attacker exactly when the turn counter is even; the counter changes in a
   turn advance only, which adds exactly 1, hands the move to the other
   player and leaves the board as it was. *)
C32_TurnParity ==
  /\ []((game.next_player = Attacker) <=> (game.turns_played % 2 = 0))
  /\ [][pc = "advance" =>
          /\ game'.turns_played = game.turns_played + 1
          /\ game'.next_player = next(game.next_player)
          /\ game'.board = game.board]_vars
  /\ [][pc # "advance" =>
          /\ game'.turns_played = game.turns_played
          /\ game'.next_player = game.next_player]_vars

(* two turns have been played, the board is no longer the deployment, and
   the Attacker is to move again *)
C32_Witness ==
  /\ pc = "loop"
  /\ game.turns_played = 2
  /\ game.next_player = Attacker
  /\ game.board # NewGame(MaxTurns).board

----------------------------------------------------------------------------

(* C33: with a maximum number of turns N configured, the turn counter never
   passes N and every position with N turns played has a winner, so a play
   of accepted actions each followed by a turn advance reaches a winner
   within N turns; a position with a winner is left as it is by the main
   loop, which reports the winner and applies nothing afterwards. *)
C33_EndsWithinLimit ==
  /\ [](game.turns_played <= game.options.max_turns)
  /\ [](game.turns_played = game.options.max_turns => has_winner(game) # NoWinner)
  /\ [][(pc = "loop" /\ has_winner(game) # NoWinner) =>
          /\ pc' = "done"
          /\ winner' = has_winner(game)
          /\ game' = game]_vars
  /\ [][pc # "done"]_vars

(* the game ended on the turn limit with both Command units on the board,
   after a last accepted action *)
C33_Witness ==
  /\ pc = "done"
  /\ winner = Defender
  /\ game.turns_played = game.options.max_turns
  /\ game.attacker_has_ai /\ game.defender_has_ai
  /\ game.board # NewGame(MaxTurns).board

----------------------------------------------------------------------------

(* a unit stands in cell c after the step that did not stand there before:
   the cell was empty, or held a unit of another owner or type *)
Arrives(c) ==
  /\ game'.board[c] # NoUnit
  /\ \/ game.board[c] = NoUnit
     \/ game.board[c].player # game'.board[c].player
     \/ game.board[c].type # game'.board[c].type

(* from src to dst neither coordinate moves against the owner's direction
   and one of them moves along it *)
Onward(player, src, dst) ==
  IF player = Attacker
    THEN /\ Row(dst) <= Row(src) /\ Col(dst) <= Col(src)
         /\ Row(dst) + Col(dst) < Row(src) + Col(src)
    ELSE /\ Row(dst) >= Row(src) /\ Col(dst) >= Col(src)
         /\ Row(dst) + Col(dst) > Row(src) + Col(src)

(* C34: a unit comes to stand in a cell only by an accepted Move, which
   takes it there from the cell it leaves empty; for a Command unit, a
   Program or a Firewall that Move never increases the row or the column of
   an Attacker's unit and never decreases those of a Defender's unit, and
   changes one of them, so that over a play these units never come back to
   a cell they have left. *)
C34_NoWayBack ==
  [][\A c \in Cells :
       Arrives(c) =>
         /\ result'.ok /\ result'.action_type = "Move"
         /\ mv'.dst = c
         /\ game'.board[c] = game.board[mv'.src]
         /\ game'.board[mv'.src] = NoUnit
         /\ game'.board[c].type \in ForwardOnly
              => Onward(game'.board[c].player, mv'.src, c)]_vars

(* in the third turn an Attacker's Command unit, Program or Firewall has
   moved on from a cell that was empty in the deployment, which it had
   moved into in the first turn *)
C34_Witness ==
  /\ Applied("Move")
  /\ pre.turns_played = 2
  /\ pre.board[mv.src].player = Attacker
  /\ pre.board[mv.src].type \in ForwardOnly
  /\ NewGame(MaxTurns).board[mv.src] = NoUnit
  /\ Onward(Attacker, mv.src, mv.dst)

====
